---- MODULE Spec2Model ----
(***************************************************************************)
(* State-machine model of the NUMA-aware memory core of Redis-NUMA:        *)
(*   - the prefix allocator of zmalloc.c on top of the size-class pool of  *)
(*     numa_pool.c (SpecAlloc),                                            *)
(*   - the per-kind key migration of numa_key_migrate.c and the block      *)
(*     migration of numa_migrate.c (SpecMig),                              *)
(*   - the hot-key trackers of numa_composite_lru.c and numa_key_migrate.c *)
(*     (SpecLru sequential, SpecLruConc with racing worker threads),       *)
(*   - the strategy slot scheduler of numa_strategy_slots.c (SpecSlots for *)
(*     the calls of one thread, SpecSlotsConc for inserts from two         *)
(*     threads, SpecConfig for the configuration of composite-lru),        *)
(*   - the slab allocator of numa_pool.c (SpecSlab for the calls of one    *)
(*     thread on every size class, SpecSlabConc for two threads),          *)
(*   - the placement engine of numa_configurable_strategy.c and the        *)
(*     NUMACONFIG command (SpecPlace; SpecPlaceAlloc with the allocator).  *)
(* Addresses and sizes are in bytes.  Address 0 is the NULL pointer.       *)
(***************************************************************************)
EXTENDS Integers, Sequences, FiniteSets, TLC

VARIABLES
    \* ---- allocator (zmalloc.c, numa_pool.c)
    current_node,   \* numa_ctx.current_node == pool_ctx.current_node
    chunks,         \* <<node, class>> -> chunk list, head first (no entry: empty)
    free_list,      \* <<node, class>> -> free_block list, head first (no entry: empty)
    os,             \* regions handed out by numa_alloc_onnode: [base, len, node]
    prefix,         \* memory holding numa_alloc_prefix_t words: raw address -> prefix
    live,           \* ghost: the user pointers the host holds: [p, size, node]
    nallocs,        \* ghost: allocation calls made so far (bounds the run)
    nfail,          \* ghost: allocations the OS or malloc refused so far (bounds the run)
    oom_abort,      \* zmalloc_oom_handler has aborted the process
    used_memory,    \* the used-memory counter of zmalloc.c
    \* ---- key migration (numa_key_migrate.c, numa_migrate.c)
    heap,           \* the allocations behind the values: id -> [t, live, bytes, items, dt]
    val,            \* the value object of the key in the store: [type, encoding, ptr]
    buf,            \* a raw block its owner migrates with numa_migrate_memory: [ptr, size]
    key_metadata,   \* global_ctx.key_metadata: key -> key_numa_metadata_t
    stats,          \* global_ctx.stats
    pc,             \* position of the running numa_migrate_single_key ("idle": none)
    mig,            \* its arguments and locals
    last,           \* ghost: the call that returned last
    migrate_stats,  \* migrate_stats of numa_migrate.c
    nmigs,          \* ghost: migration calls made so far (bounds the run)
    lru_clock,      \* LRU_CLOCK() & 0xFFFF
    \* ---- composite-LRU hot-key tracker (numa_composite_lru.c)
    key_heat_map,   \* data->key_heat_map: key -> composite_lru_heat_info_t
    stability_count,            \* data->stability_count (uint8_t)
    decay_threshold,            \* data->decay_threshold (uint32_t, microseconds)
    migrate_hotness_threshold,  \* data->migrate_hotness_threshold (uint8_t)
    heat_updates,   \* data->heat_updates
    decay_operations,           \* data->decay_operations
    last_decay_time,            \* data->last_decay_time, in seconds
    now,            \* the time of day, in seconds
    cold_passes,    \* ghost: key -> decay passes in a row that found it cold
    nticks,         \* ghost: clock advances so far (bounds the run)
    nconfigs,       \* ghost: set_config calls so far (bounds the run)
    wpc,            \* worker thread -> where it is in composite_lru_record_access
    tpc,            \* where the ticker thread is in composite_lru_execute
    ncalls,         \* ghost: worker thread -> calls so far (bounds the run)
    pending_migrations,         \* data->pending_migrations: pending_migration_t list
    migrations_triggered,       \* data->migrations_triggered
    pending_timeouts,           \* data->pending_timeouts
    \* ---- strategy slot framework (numa_strategy_slots.c)
    slots,          \* strategy_manager.slots: slot id -> strategy instance
    factories,      \* strategy_manager.factories: the registered names
    manager,        \* initialized, total_runs, total_strategy_executions
    live_strategies,            \* ids of the instances created and not destroyed
    next_strategy,  \* id of the next instance a factory creates
    slot_clock,     \* get_current_time_us()
    slot_threads,   \* thread -> where it is in a call of the framework
    pass_log,       \* ghost: the executions of the last run_all, in order
    executed,       \* ghost: slot id -> executions so far; time, strategy, result of the last
    disabled_by_call,           \* ghost: (slot, strategy) disabled, the slot not enabled since
    nslotops,       \* ghost: insert/remove/enable/disable calls so far
    nruns,          \* ghost: run_slot/run_all calls so far
    nslotticks,     \* ghost: clock advances so far
    \* ---- slab allocator (numa_pool.c), the slabs of one size class on node 0
    slab_class,     \* class_idx of the class
    slab_tab,       \* the numa_slab_t ever allocated, by id (a sequence)
    partial_slabs,  \* class->partial_slabs: slab ids, head first
    full_slabs,     \* class->full_slabs
    empty_slabs,    \* class->empty_slabs
    empty_count,    \* class->empty_count
    slabs_count,    \* class->slabs_count
    class_lock,     \* class->lock: 0 or the thread that holds it
    slab_pc,        \* thread -> where it is in numa_slab_alloc or numa_slab_free
    held,           \* ghost: the cells the host holds: [slab, bit, ptr]
    slab_crashed,   \* a thread touched released memory and the process died
    nslabcalls      \* ghost: calls of numa_slab_alloc and numa_slab_free so far

\* the placement engine (numa_configurable_strategy.c) and its command
VARIABLES strategy_type, node_weights, balance_threshold, enable_cxl_optimization,
          auto_rebalance, allocation_counters, bytes_allocated_per_node,
          rr_index,         \* select_best_node's thread-local counter, per thread
          rr_turn,          \* per thread: its round-robin selections so far, modulo the node count
          cfg_selected,     \* the last call of select_best_node and what it returned
          cfg_reply,        \* the last NUMACONFIG SET command and its reply
          cfg_fault,        \* "none", or how the process stopped
          ncfgcalls

\* the process after numa_pool_try_compact
VARIABLES pool_fault    \* the host touched a block in memory that compaction released

\* the two mutexes, and the calls that take them step by step
VARIABLES g_config_mutex,   \* 0, or the thread that holds g_config_mutex
          cfg_threads,      \* thread -> where it is in a call of the placement engine
          manager_lock      \* 0, or the thread that holds strategy_manager.lock

\* g_runtime_state.config.num_nodes where the configuration calls change it
VARIABLES num_nodes

\* the last call of calculate_time_delta: the file of the function called,
\* its arguments and its result
VARIABLES delta_call

allocVars ==
    <<current_node, chunks, free_list, os, prefix, live, nallocs, nfail, oom_abort,
      used_memory>>

migVars ==
    <<heap, val, buf, key_metadata, stats, migrate_stats, pc, mig, last, nmigs, lru_clock>>

lruVars ==
    <<key_heat_map, stability_count, decay_threshold, migrate_hotness_threshold,
      heat_updates, decay_operations, last_decay_time, now, cold_passes,
      nticks, nconfigs, wpc, tpc, ncalls, pending_migrations,
      migrations_triggered, pending_timeouts>>

slotVars ==
    <<slots, factories, manager, live_strategies, next_strategy, slot_clock,
      slot_threads, pass_log, executed, disabled_by_call, nslotops,
      nruns, nslotticks>>

slabVars ==
    <<slab_class, slab_tab, partial_slabs, full_slabs, empty_slabs, empty_count,
      slabs_count, class_lock, slab_pc, held, slab_crashed, nslabcalls>>

placeVars ==
    <<strategy_type, node_weights, balance_threshold, enable_cxl_optimization,
      auto_rebalance, allocation_counters, bytes_allocated_per_node, rr_index,
      rr_turn, cfg_selected, cfg_reply, cfg_fault, ncfgcalls>>
compactVars == <<pool_fault>>

lockVars == <<g_config_mutex, cfg_threads, manager_lock>>

nodeVars == <<num_nodes>>

deltaVars == <<delta_call>>

laterVars == <<lockVars, nodeVars, deltaVars>>

restVars == <<compactVars, laterVars>>

moreVars == <<slabVars, placeVars, restVars>>

vars == <<allocVars, migVars, lruVars, slotVars, moreVars>>

\* the subsystems a specification does not exercise stay as constructed
NoCall == [op |-> "none"]

AllocQuiet ==
    /\ current_node = 0 /\ chunks = <<>> /\ free_list = <<>> /\ os = {}
    /\ prefix = <<>> /\ live = {} /\ nallocs = 0 /\ nfail = 0 /\ oom_abort = FALSE
    /\ used_memory = 0

MigQuiet ==
    /\ heap = <<>> /\ val = [type |-> "none", encoding |-> "none", ptr |-> 0]
    /\ buf = [ptr |-> 0, size |-> 0] /\ key_metadata = <<>>
    /\ stats = [total_migrations |-> 0, successful_migrations |-> 0, failed_migrations |-> 0]
    /\ migrate_stats = [total_migrations |-> 0, failed_migrations |-> 0, bytes_migrated |-> 0]
    /\ pc = "idle" /\ mig = NoCall /\ last = NoCall /\ nmigs = 0 /\ lru_clock = 0

Workers == {1, 2}
Idle == [at |-> "idle"]

NoThreads ==
    /\ wpc = [t \in Workers |-> Idle] /\ tpc = Idle
    /\ ncalls = [t \in Workers |-> 0]

lruPending == <<pending_migrations, migrations_triggered, pending_timeouts>>

\* composite_lru_init: listCreate(), counters cleared by memset
NoPending ==
    pending_migrations = <<>> /\ migrations_triggered = 0 /\ pending_timeouts = 0

LruQuiet ==
    /\ NoThreads /\ NoPending
    /\ key_heat_map = <<>> /\ cold_passes = <<>>
    /\ stability_count = 3 /\ decay_threshold = 10000000
    /\ migrate_hotness_threshold = 5 /\ heat_updates = 0 /\ decay_operations = 0
    /\ now = 0 /\ last_decay_time = 0 /\ nticks = 0 /\ nconfigs = 0

NoStrategy == [name |-> "none"]

\* before numa_strategy_init: the manager is zeroed
SlotQuiet ==
    /\ slots = [s \in 0 .. 15 |-> NoStrategy] /\ factories = {}
    /\ manager = [initialized |-> 0, total_runs |-> 0, total_strategy_executions |-> 0]
    /\ live_strategies = {} /\ next_strategy = 1 /\ slot_clock = 0
    /\ slot_threads = [t \in Workers |-> Idle]
    /\ pass_log = <<>> /\ executed = <<>> /\ disabled_by_call = {}
    /\ nslotops = 0 /\ nruns = 0 /\ nslotticks = 0

SlabIdle == [at |-> "idle", slab |-> 0, bit |-> 0, old |-> 0]

\* before numa_slab_init
SlabQuiet ==
    /\ slab_class = 0 /\ slab_tab = <<>>
    /\ partial_slabs = <<>> /\ full_slabs = <<>> /\ empty_slabs = <<>>
    /\ empty_count = 0 /\ slabs_count = 0 /\ class_lock = 0
    /\ slab_pc = [t \in Workers |-> SlabIdle]
    /\ held = {} /\ slab_crashed = FALSE /\ nslabcalls = 0

NoSelection == [t |-> 0, strategy |-> -1, size |-> 0, node |-> 0]
NoCommand == [param |-> "", value |-> "", weight |-> "", reply |-> ""]
\* before numa_config_strategy_init: g_runtime_state is zero
PlaceQuiet ==
    /\ strategy_type = 0 /\ node_weights = <<>> /\ balance_threshold = 0
    /\ enable_cxl_optimization = 0 /\ auto_rebalance = 0
    /\ allocation_counters = <<>> /\ bytes_allocated_per_node = <<>>
    /\ rr_index = [t \in Workers |-> 0] /\ rr_turn = [t \in Workers |-> 0]
    /\ cfg_selected = NoSelection /\ cfg_reply = NoCommand
    /\ cfg_fault = "none" /\ ncfgcalls = 0
\* no block in released memory has been touched
CompactQuiet == pool_fault = FALSE

\* no call of the placement engine or of the scheduler under way
LockQuiet ==
    /\ g_config_mutex = 0 /\ manager_lock = 0
    /\ cfg_threads = [t \in Workers |-> Idle]

NodeQuiet == num_nodes = 0

DeltaQuiet == delta_call = [by |-> "", current |-> 0, last |-> 0, delta |-> 0]

LaterQuiet == LockQuiet /\ NodeQuiet /\ DeltaQuiet

RestQuiet == CompactQuiet /\ LaterQuiet

MoreQuiet == SlabQuiet /\ PlaceQuiet /\ RestQuiet


(***************************************************************************)
(* Bounds of the model.                                                    *)
(***************************************************************************)
MaxAllocs == 2          \* allocation calls per run
MaxFailures == 1        \* refusals by the OS or by malloc per run

Nodes == 0 .. 1                         \* pool_ctx.num_nodes == 2
NodeArgs == -1 .. 2                     \* arguments tried with numa_set_current_node
AllocSizes == {3000, 3050, 5000}        \* request sizes tried by the host
OnNodeSizes == {3000}                   \* request sizes tried with numa_zmalloc_onnode
ReallocSizes == {0, 3050}               \* new sizes tried with numa_zrealloc
AgedSlack == {3072}                     \* bytes left in a chunk that earlier runs filled

(***************************************************************************)
(* Program constants.                                                      *)
(***************************************************************************)
PREFIX_SIZE == 16
NUMA_POOL_SIZE_CLASSES == 16
NUMA_POOL_MAX_ALLOC == 4096
CHUNK_SIZE_SMALL == 16 * 1024
CHUNK_SIZE_MEDIUM == 64 * 1024
CHUNK_SIZE_LARGE == 256 * 1024
PAGE_SIZE == 4096
BaseAddr == PAGE_SIZE * 16              \* lowest address the OS hands out

numa_pool_size_classes ==
    <<16, 32, 48, 64, 96, 128, 192, 256, 384, 512, 768, 1024, 1536, 2048, 3072, 4096>>

ClassIds == 0 .. (NUMA_POOL_SIZE_CLASSES - 1)

NULL == 0

(***************************************************************************)
(* numa_pool.c: helpers                                                    *)
(***************************************************************************)
get_chunk_size_for_object(obj_size) ==
    IF obj_size <= 256 THEN CHUNK_SIZE_SMALL
    ELSE IF obj_size <= 1024 THEN CHUNK_SIZE_MEDIUM
    ELSE IF obj_size <= 4096 THEN CHUNK_SIZE_LARGE
    ELSE 0

\* (x + 15) & ~15
Align16(x) == ((x + 15) \div 16) * 16

PageUp(x) == ((x + PAGE_SIZE - 1) \div PAGE_SIZE) * PAGE_SIZE

\* the nested ternaries of numa_pool_alloc; -1 when no class fits
AllocClassIdx(alloc_size) ==
    IF alloc_size <= 64 THEN
        (IF alloc_size <= 16 THEN 0 ELSE IF alloc_size <= 32 THEN 1
         ELSE IF alloc_size <= 48 THEN 2 ELSE 3)
    ELSE IF alloc_size <= 256 THEN
        (IF alloc_size <= 96 THEN 4 ELSE IF alloc_size <= 128 THEN 5
         ELSE IF alloc_size <= 192 THEN 6 ELSE 7)
    ELSE IF alloc_size <= 1024 THEN
        (IF alloc_size <= 384 THEN 8 ELSE IF alloc_size <= 512 THEN 9
         ELSE IF alloc_size <= 768 THEN 10 ELSE 11)
    ELSE IF alloc_size <= 4096 THEN
        (IF alloc_size <= 1536 THEN 12 ELSE IF alloc_size <= 2048 THEN 13
         ELSE IF alloc_size <= 3072 THEN 14 ELSE 15)
    ELSE -1

\* a search that takes the last class not above the size
FreeClassIdxBelow(aligned_size) ==
    LET below == {i \in ClassIds : numa_pool_size_classes[i + 1] <= aligned_size}
    IN  IF below = {} THEN -1 ELSE CHOOSE i \in below : \A j \in below : j <= i

\* the linear search of numa_pool_free; -1 when no class fits
FreeClassIdx(aligned_size) ==
    LET fits == {i \in ClassIds : aligned_size <= numa_pool_size_classes[i + 1]}
    IN  IF fits = {} THEN -1 ELSE CHOOSE i \in fits : \A j \in fits : i <= j

(***************************************************************************)
(* The OS: numa_alloc_onnode maps whole pages at the lowest free address   *)
(* (first fit), numa_free unmaps them.                                     *)
(***************************************************************************)
RegionFree(regions, base, len) ==
    \A r \in regions : base + len <= r.base \/ r.base + r.len <= base

OsPlace(regions, len) ==
    LET cands == {BaseAddr} \cup {r.base + r.len : r \in regions}
        ok == {a \in cands : RegionFree(regions, a, len)}
    IN  CHOOSE a \in ok : \A b \in ok : a <= b

\* numa_alloc_onnode(size, node): the region mapped, bound to node
numa_alloc_onnode(regions, size, node) ==
    [base |-> OsPlace(regions, PageUp(size)), len |-> PageUp(size), node |-> node]

\* numa_free(ptr, size): the regions left mapped
numa_free(regions, ptr, size) ==
    {r \in regions : ~(ptr <= r.base /\ r.base + r.len <= ptr + PageUp(size))}

(***************************************************************************)
(* numa_pool.c: numa_pool_alloc and numa_pool_free.  They work on the      *)
(* record ps = [chunks, free_list, os].  A chunk is [memory, size, offset, *)
(* used_bytes]; a free block is [ptr, size].  The pool statistics          *)
(* (pool_hits, total_allocated, ...) are write-only counters and are left  *)
(* out.                                                                    *)
(***************************************************************************)
ValidNode(node) == node >= 0 /\ node < Cardinality(Nodes)

\* pool_ctx.node_pools[node].pools[class_idx]: the lists are kept as maps from
\* <<node, class_idx>> to the non-empty lists
ListAt(lists, node, class_idx) ==
    IF <<node, class_idx>> \in DOMAIN lists THEN lists[<<node, class_idx>>] ELSE <<>>

SetListAt(lists, node, class_idx, l) ==
    IF l = <<>>
    THEN [k \in DOMAIN lists \ {<<node, class_idx>>} |-> lists[k]]
    ELSE (<<node, class_idx>> :> l) @@ lists

\* a free-list reuse that does not compare the recorded size with the request
FreeListFitsAnySize(free_block, aligned_size) == TRUE

\* fast path 1: the free-list head is reused when it is large enough
FreeListFits(free_block, aligned_size) == free_block.size >= aligned_size

\* fast path 2: the head chunk has room for the aligned request
ChunkHasRoom(chunk, aligned_size) == chunk.offset + aligned_size <= chunk.size

\* alloc_new_chunk succeeds: malloc and numa_alloc_onnode both succeed
NewChunkOk(chunk_list, oom) == oom = "none"

\* numa_pool_alloc(size, node, &total_size): [result, ps]
numa_pool_alloc(ps, size, node_arg, oom) ==
    LET node == IF ValidNode(node_arg) THEN node_arg ELSE current_node
        alloc_size == size
        class_idx == IF alloc_size <= NUMA_POOL_MAX_ALLOC
                     THEN AllocClassIdx(alloc_size) ELSE -1
        aligned_size == Align16(alloc_size)
        direct ==
            IF oom = "all" THEN [result |-> NULL, ps |-> ps]
            ELSE LET reg == numa_alloc_onnode(ps.os, alloc_size, node)
                 IN  [result |-> reg.base, ps |-> [ps EXCEPT !.os = @ \cup {reg}]]
    IN  IF class_idx >= 0 THEN
            LET fl == ListAt(ps.free_list, node, class_idx)
                cl == ListAt(ps.chunks, node, class_idx)
            IN  IF fl # <<>> /\ FreeListFits(Head(fl), aligned_size) THEN
                    [result |-> Head(fl).ptr,
                     ps |-> [ps EXCEPT !.free_list = SetListAt(@, node, class_idx, Tail(fl))]]
                ELSE IF cl # <<>> /\ ChunkHasRoom(Head(cl), aligned_size) THEN
                    [result |-> Head(cl).memory + Head(cl).offset,
                     ps |-> [ps EXCEPT !.chunks = SetListAt(@, node, class_idx,
                                <<[Head(cl) EXCEPT !.offset = @ + aligned_size,
                                                   !.used_bytes = @ + aligned_size]>>
                                \o Tail(cl))]]
                ELSE IF NewChunkOk(cl, oom) THEN
                    LET reg == numa_alloc_onnode(
                                   ps.os, get_chunk_size_for_object(alloc_size), node)
                        new_chunk == [memory |-> reg.base, size |-> reg.len,
                                      offset |-> aligned_size,
                                      used_bytes |-> aligned_size]
                    IN  [result |-> reg.base,
                         ps |-> [ps EXCEPT !.os = @ \cup {reg},
                                           !.chunks = SetListAt(@, node, class_idx,
                                                               <<new_chunk>> \o cl)]]
                ELSE direct
        ELSE direct

\* the node whose free list numa_pool_free pushes on
FreeNode == IF current_node >= 0 /\ ValidNode(current_node) THEN current_node ELSE 0

\* malloc(sizeof(free_block_t)) succeeds
FreeRecordOk(fl, rec_ok) == rec_ok

\* numa_pool_free(ptr, total_size, from_pool): the pool state afterwards
numa_pool_free(ps, ptr, total_size, from_pool, rec_ok) ==
    IF ptr = NULL THEN ps
    ELSE IF from_pool = 0 THEN [ps EXCEPT !.os = numa_free(@, ptr, total_size)]
    ELSE LET aligned_size == Align16(total_size)
             class_idx == FreeClassIdx(aligned_size)
         IN  IF class_idx < 0 THEN ps
             ELSE LET fl == ListAt(ps.free_list, FreeNode, class_idx)
                  IN  IF ~FreeRecordOk(fl, rec_ok) THEN ps
                      ELSE [ps EXCEPT !.free_list = SetListAt(@, FreeNode, class_idx,
                                <<[ptr |-> ptr, size |-> aligned_size]>> \o fl)]

(***************************************************************************)
(* zmalloc.c: the prefix layer.  ms = [chunks, free_list, os, prefix].     *)
(***************************************************************************)
PoolOf(ms) == [chunks |-> ms.chunks, free_list |-> ms.free_list, os |-> ms.os]

WithPool(ms, ps) ==
    [chunks |-> ps.chunks, free_list |-> ps.free_list, os |-> ps.os,
     prefix |-> ms.prefix, used |-> ms.used]

\* from_pool as numa_alloc_with_size derives it from the size
FromPoolFlag(total_size) == IF total_size <= NUMA_POOL_MAX_ALLOC THEN 1 ELSE 0

\* numa_init_prefix: the prefix words written at raw_ptr
numa_init_prefix(mem, raw_ptr, size, from_pool) ==
    (raw_ptr :> [size |-> size, from_pool |-> from_pool]) @@ mem

\* numa_get_prefix: the prefix words read at user_ptr - PREFIX_SIZE
numa_get_prefix(mem, user_ptr) ==
    IF (user_ptr - PREFIX_SIZE) \in DOMAIN mem THEN mem[user_ptr - PREFIX_SIZE]
    ELSE [size |-> 0, from_pool |-> 0]

\* a write of size bytes at ptr (memset, memcpy): prefix words it covers are lost
WriteBytes(mem, ptr, size) ==
    [a \in DOMAIN mem |->
        IF a + PREFIX_SIZE > ptr /\ a < ptr + size
        THEN [size |-> 0, from_pool |-> 0] ELSE mem[a]]

\* the content of released memory is no longer tracked
Forget(mem, raw_ptr) == [a \in DOMAIN mem \ {raw_ptr} |-> mem[a]]

\* an allocator that never subtracts from the counter
update_zmalloc_stat_free_none(used, n) == used

\* update_zmalloc_stat_alloc(n), update_zmalloc_stat_free(n) on used_memory
update_zmalloc_stat_alloc(used, n) == used + n

update_zmalloc_stat_free(used, n) == used - n

\* numa_alloc_with_size(size): [ptr, ms]
numa_alloc_with_size(ms, size, oom) ==
    LET total_size == size + PREFIX_SIZE
        r == numa_pool_alloc(PoolOf(ms), total_size, current_node, oom)
    IN  IF r.result = NULL THEN [ptr |-> NULL, ms |-> ms]
        ELSE [ptr |-> r.result + PREFIX_SIZE,
              ms |-> [WithPool(ms, r.ps) EXCEPT
                        !.prefix = numa_init_prefix(@, r.result, size,
                                                    FromPoolFlag(total_size)),
                        !.used = update_zmalloc_stat_alloc(@, total_size)]]

\* numa_free_with_size(user_ptr): ms afterwards
numa_free_with_size(ms, user_ptr, rec_ok) ==
    IF user_ptr = NULL THEN ms
    ELSE LET pre == numa_get_prefix(ms.prefix, user_ptr)
             total_size == pre.size + PREFIX_SIZE
             raw_ptr == user_ptr - PREFIX_SIZE
             ps == numa_pool_free(PoolOf(ms), raw_ptr, total_size, pre.from_pool, rec_ok)
         IN  [WithPool(ms, ps) EXCEPT
                !.prefix = Forget(@, raw_ptr),
                !.used = update_zmalloc_stat_free(@, total_size)]

\* numa_alloc_on_specific_node(size, node): always a direct allocation
numa_alloc_on_specific_node(ms, size, node, oom) ==
    IF oom = "all" THEN [ptr |-> NULL, ms |-> ms]
    ELSE LET reg == numa_alloc_onnode(ms.os, size + PREFIX_SIZE, node)
         IN  [ptr |-> reg.base + PREFIX_SIZE,
              ms |-> [ms EXCEPT
                        !.os = @ \cup {reg},
                        !.prefix = numa_init_prefix(@, reg.base, size, 0),
                        !.used = update_zmalloc_stat_alloc(@, size + PREFIX_SIZE)]]

(***************************************************************************)
(* The allocator's operations, as the host calls them.                     *)
(***************************************************************************)
OomChoices == {"none", "chunk", "all"}

\* the refusals (of numa_alloc_onnode or malloc) an operation is run with
Refuse(oom, rec_ok) ==
    LET n == (IF oom = "none" THEN 0 ELSE 1) + (IF rec_ok THEN 0 ELSE 1)
    IN  /\ nfail + n <= MaxFailures
        /\ nfail' = nfail + n

MS ==
    [chunks |-> chunks, free_list |-> free_list, os |-> os, prefix |-> prefix,
     used |-> used_memory]

SetMS(ms) ==
    /\ chunks' = ms.chunks
    /\ free_list' = ms.free_list
    /\ os' = ms.os
    /\ prefix' = ms.prefix
    /\ used_memory' = ms.used

Block(p, size, node) == [p |-> p, size |-> size, node |-> node]

\* numa_zmalloc(size)
Alloc(size, oom) ==
    /\ ~oom_abort /\ nallocs < MaxAllocs
    /\ LET r == numa_alloc_with_size(MS, size, oom)
       IN  /\ SetMS(r.ms)
           /\ live' = IF r.ptr = NULL THEN live
                      ELSE live \cup {Block(r.ptr, size, current_node)}
           /\ oom_abort' = (r.ptr = NULL /\ size > 0)
    /\ nallocs' = nallocs + 1
    /\ Refuse(oom, TRUE)
    /\ UNCHANGED current_node

\* numa_zcalloc(size): numa_alloc_with_size, then memset(ptr, 0, size)
Calloc(size, oom) ==
    /\ ~oom_abort /\ nallocs < MaxAllocs
    /\ LET r == numa_alloc_with_size(MS, size, oom)
       IN  /\ SetMS(IF r.ptr = NULL THEN r.ms
                    ELSE [r.ms EXCEPT !.prefix = WriteBytes(@, r.ptr, size)])
           /\ live' = IF r.ptr = NULL THEN live
                      ELSE live \cup {Block(r.ptr, size, current_node)}
           /\ oom_abort' = (r.ptr = NULL /\ size > 0)
    /\ nallocs' = nallocs + 1
    /\ Refuse(oom, TRUE)
    /\ UNCHANGED current_node

\* numa_zfree(ptr) of a pointer the host holds
Free(b, rec_ok) ==
    /\ ~oom_abort /\ b \in live
    /\ SetMS(numa_free_with_size(MS, b.p, rec_ok))
    /\ live' = live \ {b}
    /\ Refuse("none", rec_ok)
    /\ UNCHANGED <<current_node, nallocs, oom_abort>>

\* numa_zrealloc(ptr, size) with ptr non-null: size 0 frees, otherwise
\* allocate, memcpy(min(old_size, size)), free the old block
Realloc(b, size, oom, rec_ok) ==
    /\ ~oom_abort /\ b \in live
    /\ IF size = 0 THEN
          /\ SetMS(numa_free_with_size(MS, b.p, rec_ok))
          /\ live' = live \ {b}
          /\ Refuse("none", rec_ok)
          /\ UNCHANGED <<nallocs, oom_abort>>
       ELSE
          /\ nallocs < MaxAllocs
          /\ nallocs' = nallocs + 1
          /\ Refuse(oom, rec_ok)
          /\ LET old_size == numa_get_prefix(prefix, b.p).size
                 r == numa_alloc_with_size(MS, size, oom)
                 copy_size == IF old_size < size THEN old_size ELSE size
             IN  IF r.ptr = NULL THEN
                    /\ oom_abort' = TRUE
                    /\ UNCHANGED <<chunks, free_list, os, prefix, live, used_memory>>
                 ELSE
                    /\ SetMS(numa_free_with_size(
                          [r.ms EXCEPT !.prefix = WriteBytes(@, r.ptr, copy_size)],
                          b.p, rec_ok))
                    /\ live' = (live \ {b}) \cup {Block(r.ptr, size, current_node)}
                    /\ UNCHANGED oom_abort
    /\ UNCHANGED current_node

\* numa_set_current_node(node)
SetNode(node) ==
    /\ ~oom_abort
    /\ current_node' = IF ValidNode(node) THEN node ELSE current_node
    /\ UNCHANGED <<chunks, free_list, os, prefix, live, nallocs, nfail, oom_abort,
                   used_memory>>

\* numa_zmalloc_onnode(size, node)
AllocOnNode(size, node, oom) ==
    /\ ~oom_abort /\ nallocs < MaxAllocs
    /\ nallocs' = nallocs + 1
    /\ Refuse(oom, TRUE)
    /\ IF ~ValidNode(node)
       THEN UNCHANGED <<chunks, free_list, os, prefix, live, oom_abort, used_memory>>
       ELSE LET r == numa_alloc_on_specific_node(MS, size, node, oom)
            IN  /\ SetMS(r.ms)
                /\ live' = IF r.ptr = NULL THEN live
                           ELSE live \cup {Block(r.ptr, size, node)}
                /\ oom_abort' = (r.ptr = NULL /\ size > 0)
    /\ UNCHANGED current_node

(***************************************************************************)
(* Initial states: numa_init has run (empty pools, the current node is the *)
(* node of the calling CPU).  A pool may also hold a chunk from earlier    *)
(* allocations: either one they filled up to AgedSlack bytes and whose     *)
(* blocks were released without a free-list record (numa_pool_free drops   *)
(* the block when its malloc fails), or one whose only block was released  *)
(* and is on the free list.                                                *)
(***************************************************************************)
EmptyPools == <<>>

AgedChunk(slack) ==
    [memory |-> BaseAddr, size |-> CHUNK_SIZE_LARGE,
     offset |-> CHUNK_SIZE_LARGE - slack, used_bytes |-> CHUNK_SIZE_LARGE - slack]

\* a block of 3000 bytes, allocated from a fresh chunk and released
AgedFree == [ptr |-> BaseAddr, size |-> Align16(3000 + PREFIX_SIZE)]

InitAllocState ==
    /\ current_node = 0
    /\ \/ chunks = EmptyPools /\ free_list = EmptyPools /\ os = {}
       \/ \E slack \in AgedSlack :
            /\ chunks = SetListAt(EmptyPools, 0, 14, <<AgedChunk(slack)>>)
            /\ free_list = EmptyPools
            /\ os = {[base |-> BaseAddr, len |-> CHUNK_SIZE_LARGE, node |-> 0]}
       \/ /\ chunks = SetListAt(EmptyPools, 0, 14,
                                <<AgedChunk(CHUNK_SIZE_LARGE - AgedFree.size)>>)
          /\ free_list = SetListAt(EmptyPools, 0, 14, <<AgedFree>>)
          /\ os = {[base |-> BaseAddr, len |-> CHUNK_SIZE_LARGE, node |-> 0]}
    /\ prefix = <<>>
    /\ live = {}
    /\ nallocs = 0
    /\ nfail = 0
    /\ oom_abort = FALSE
    /\ used_memory = 0

InitAlloc == InitAllocState /\ MigQuiet /\ LruQuiet /\ SlotQuiet /\ MoreQuiet

NextAlloc ==
    \/ \E size \in AllocSizes, oom \in OomChoices :
          Alloc(size, oom) /\ UNCHANGED <<migVars, lruVars, slotVars, moreVars>>
    \/ \E size \in AllocSizes, oom \in OomChoices :
          Calloc(size, oom) /\ UNCHANGED <<migVars, lruVars, slotVars, moreVars>>
    \/ \E b \in live, rec_ok \in BOOLEAN :
          Free(b, rec_ok) /\ UNCHANGED <<migVars, lruVars, slotVars, moreVars>>
    \/ \E b \in live, size \in ReallocSizes, oom \in OomChoices, rec_ok \in BOOLEAN :
          Realloc(b, size, oom, rec_ok) /\ UNCHANGED <<migVars, lruVars, slotVars, moreVars>>
    \/ \E node \in NodeArgs :
          SetNode(node) /\ UNCHANGED <<migVars, lruVars, slotVars, moreVars>>
    \/ \E size \in OnNodeSizes, node \in NodeArgs, oom \in OomChoices :
          AllocOnNode(size, node, oom) /\ UNCHANGED <<migVars, lruVars, slotVars, moreVars>>

SpecAlloc == InitAlloc /\ [][NextAlloc]_vars

(***************************************************************************)
(* Claims about the allocator.                                             *)
(***************************************************************************)
RawOf(b) == b.p - PREFIX_SIZE
EndOf(b) == b.p + b.size

\* C1: for every live user pointer p the prefix at p - 16 holds the size
\* given when p was allocated, and no two live blocks overlap
C1_PrefixIntact ==
    /\ \A b \in live :
          /\ RawOf(b) \in DOMAIN prefix
          /\ prefix[RawOf(b)].size = b.size
    /\ \A b1 \in live, b2 \in live :
          b1 # b2 => (EndOf(b1) <= RawOf(b2) \/ EndOf(b2) <= RawOf(b1))

\* witness of C1: a block taken from the free list lives next to another live
\* block of the same chunk
C1_Witness ==
    \E b1 \in live, b2 \in live :
        /\ b1 # b2
        /\ \E r \in os : /\ r.len = CHUNK_SIZE_LARGE
                         /\ r.base <= RawOf(b1) /\ EndOf(b1) <= r.base + r.len
                         /\ r.base <= RawOf(b2) /\ EndOf(b2) <= r.base + r.len
        /\ nallocs >= 2
        /\ free_list = EmptyPools

\* C2: every live block lies in memory obtained from the OS for the node it
\* was requested on
C2_BlocksOnRequestedNode ==
    \A b \in live :
        \E r \in os : /\ r.node = b.node
                      /\ r.base <= RawOf(b) /\ EndOf(b) <= r.base + r.len


(***************************************************************************)
(* Key migration (numa_key_migrate.c) and block migration (numa_migrate.c).*)
(* The heap is a sequence of allocations: a pointer is an index into it, a *)
(* released allocation stays in the sequence with live = FALSE.            *)
(***************************************************************************)
MaxMigrations == 2      \* migration calls per run

KeyArgs == {"k1", "k2"}             \* "k1" is in the store, "k2" is not
TargetArgs == -1 .. 2               \* target_node arguments
numa_max_node == Cardinality(Nodes) - 1

NUMA_KEY_MIGRATE_OK == "ok"
NUMA_KEY_MIGRATE_ERR == "err"
NUMA_KEY_MIGRATE_ENOENT == "enoent"
NUMA_KEY_MIGRATE_EINVAL == "einval"
NUMA_KEY_MIGRATE_ENOMEM == "enomem"
NUMA_KEY_MIGRATE_ETYPE == "etype"

HOTNESS_MAX_LEVEL == 7
HOTNESS_DEFAULT == 3

Range(f) == {f[i] : i \in DOMAIN f}

\* an allocation: t is what it holds, bytes its payload, items its pointers
\* (dict: <<key, value>> entries; quicklist: its nodes head first;
\* quicklistNode: <<zl>>; zset: <<dict, zsl>>; zskiplist: <<score, ele>>
\* head first), dt the dictType of a dict
Obj(t, bytes, items, dt) ==
    [t |-> t, live |-> TRUE, bytes |-> bytes, items |-> items, dt |-> dt]

Sds(bytes) == Obj("sds", bytes, <<>>, "")
Blob(bytes) == Obj("blob", bytes, <<>>, "")

\* zmalloc and its callers: a fresh allocation at the end of the heap
zmalloc(h, o) == Append(h, o)
NewId(h) == Len(h) + 1

\* zfree of every allocation of ids
zfree(h, ids) ==
    [i \in DOMAIN h |-> IF i \in ids THEN [h[i] EXCEPT !.live = FALSE] ELSE h[i]]

\* what releasing a structure frees.  dictRelease frees the keys and values
\* its dictType has destructors for (hash: both; set: keys; zset: none, the
\* elements belong to the skiplist); zslFree frees the nodes and their
\* elements; the quicklist loops free each node and its ziplist
OwnedFlat(h, id) ==
    LET o == h[id] IN
    CASE o.t = "dict" ->
            {id} \cup (IF o.dt \in {"hash", "set"}
                       THEN {e[1] : e \in Range(o.items)} ELSE {})
                 \cup (IF o.dt = "hash"
                       THEN {e[2] : e \in Range(o.items)} ELSE {})
      [] o.t = "quicklist" ->
            {id} \cup Range(o.items) \cup {h[n].items[1] : n \in Range(o.items)}
      [] o.t = "zskiplist" -> {id} \cup {e[2] : e \in Range(o.items)}
      [] OTHER -> {id}

Owned(h, id) ==
    IF id \notin DOMAIN h THEN {}
    ELSE IF h[id].t = "zset"
         THEN {id} \cup OwnedFlat(h, h[id].items[1]) \cup OwnedFlat(h, h[id].items[2])
         ELSE OwnedFlat(h, id)

dictRelease(h, d) == zfree(h, OwnedFlat(h, d))
zslFree(h, zsl) == zfree(h, OwnedFlat(h, zsl))

\* the value pointer refers to a complete structure none of whose parts is
\* released (an integer-encoded string has no allocation behind it)
Intact(h, v) ==
    v.encoding = "int" \/ (v.ptr \in DOMAIN h /\ \A i \in Owned(h, v.ptr) : h[i].live)

\* sdscmp(a, b) < 0: byte-wise comparison, the shorter string first on a tie
SdsLess(a, b) ==
    \/ \E i \in 1 .. Len(a) :
          /\ i <= Len(b) /\ a[i] < b[i]
          /\ \A j \in 1 .. (i - 1) : a[j] = b[j]
    \/ Len(a) < Len(b) /\ \A j \in 1 .. Len(a) : a[j] = b[j]

\* zslInsert(zsl, score, ele): after every node with a smaller score, or an
\* equal score and a smaller element
zslInsert(h, items, score, ele) ==
    LET before == {i \in 1 .. Len(items) :
                      \/ items[i][1] < score
                      \/ items[i][1] = score /\ SdsLess(h[items[i][2]].bytes, h[ele].bytes)}
        n == Cardinality(before)
    IN  SubSeq(items, 1, n) \o <<(<<score, ele>>)>> \o SubSeq(items, n + 1, Len(items))

\* dictAdd(d, key, val): DICT_ERR when an equal key is in the dict
dictAddOk(h, d, key) ==
    \A e \in Range(h[d].items) : h[e[1]].bytes # h[key].bytes

\* the logical content of a value
Content(h, v) ==
    CASE v.encoding = "int" -> [int |-> v.ptr]
      [] v.encoding \in {"raw", "embstr", "ziplist", "intset"} ->
            [bytes |-> h[v.ptr].bytes]
      [] v.type = "hash" /\ v.encoding = "ht" ->
            [pairs |-> {<<h[e[1]].bytes, h[e[2]].bytes>> : e \in Range(h[v.ptr].items)}]
      [] v.type = "set" /\ v.encoding = "ht" ->
            [members |-> {h[e[1]].bytes : e \in Range(h[v.ptr].items)}]
      [] v.type = "list" ->
            [nodes |-> [i \in DOMAIN h[v.ptr].items |->
                           h[h[h[v.ptr].items[i]].items[1]].bytes]]
      [] v.type = "zset" /\ v.encoding = "skiplist" ->
            LET d == h[h[v.ptr].items[1]]
                zsl == h[h[v.ptr].items[2]]
            IN  [ranked |-> [i \in DOMAIN zsl.items |->
                               <<zsl.items[i][1], h[zsl.items[i][2]].bytes>>],
                 scores |-> {<<h[e[1]].bytes, e[2]>> : e \in Range(d.items)}]
      [] OTHER -> [none |-> TRUE]

\* the values the key in the store may hold when the run starts; allocation 1
\* is the raw block of buf
RawBlock == Blob(<<7, 8>>)

StringRaw ==
    [heap |-> <<RawBlock, Sds(<<1, 2>>)>>,
     val |-> [type |-> "string", encoding |-> "raw", ptr |-> 2]]
StringEmbstr ==
    [heap |-> <<RawBlock, Obj("embstr", <<1>>, <<>>, "")>>,
     val |-> [type |-> "string", encoding |-> "embstr", ptr |-> 2]]
StringInt ==
    [heap |-> <<RawBlock>>,
     val |-> [type |-> "string", encoding |-> "int", ptr |-> 42]]
HashZiplist ==
    [heap |-> <<RawBlock, Blob(<<1, 2, 3>>)>>,
     val |-> [type |-> "hash", encoding |-> "ziplist", ptr |-> 2]]
HashHt ==
    [heap |-> <<RawBlock, Sds(<<1>>), Sds(<<2>>), Sds(<<3>>), Sds(<<4>>),
                Obj("dict", <<>>, <<(<<2, 3>>), (<<4, 5>>)>>, "hash")>>,
     val |-> [type |-> "hash", encoding |-> "ht", ptr |-> 6]]
ListQuicklist ==
    [heap |-> <<RawBlock, Blob(<<1, 2>>), Obj("quicklistNode", <<>>, <<2>>, ""),
                Blob(<<3>>), Obj("quicklistNode", <<>>, <<4>>, ""),
                Obj("quicklist", <<>>, <<3, 5>>, "")>>,
     val |-> [type |-> "list", encoding |-> "quicklist", ptr |-> 6]]
ListZiplist ==
    [heap |-> <<RawBlock, Blob(<<1, 2>>)>>,
     val |-> [type |-> "list", encoding |-> "ziplist", ptr |-> 2]]
SetIntset ==
    [heap |-> <<RawBlock, Blob(<<5, 6>>)>>,
     val |-> [type |-> "set", encoding |-> "intset", ptr |-> 2]]
SetHt ==
    [heap |-> <<RawBlock, Sds(<<1>>), Sds(<<2>>),
                Obj("dict", <<>>, <<(<<2, 0>>), (<<3, 0>>)>>, "set")>>,
     val |-> [type |-> "set", encoding |-> "ht", ptr |-> 4]]
ZsetZiplist ==
    [heap |-> <<RawBlock, Blob(<<9>>)>>,
     val |-> [type |-> "zset", encoding |-> "ziplist", ptr |-> 2]]
ZsetSkiplist ==
    [heap |-> <<RawBlock, Sds(<<1>>), Sds(<<2>>), Sds(<<3>>),
                Obj("zskiplist", <<>>, <<(<<4, 4>>), (<<5, 2>>), (<<5, 3>>)>>, ""),
                Obj("dict", <<>>, <<(<<4, 4>>), (<<2, 5>>), (<<3, 5>>)>>, "zset"),
                Obj("zset", <<>>, <<6, 5>>, "")>>,
     val |-> [type |-> "zset", encoding |-> "skiplist", ptr |-> 7]]
StreamValue ==
    [heap |-> <<RawBlock, Blob(<<1>>)>>,
     val |-> [type |-> "stream", encoding |-> "stream", ptr |-> 2]]

InitialValues ==
    {StringRaw, StringEmbstr, StringInt, HashZiplist, HashHt, ListQuicklist,
     ListZiplist, SetIntset, SetHt, ZsetZiplist, ZsetSkiplist, StreamValue}

\* numa_migrate_single_key: the switch on val->type and the encoding test at
\* the head of each migrate_*_type: the first step, or the result at once
FirstStep(v) ==
    CASE v.type = "string" ->
            IF v.encoding \notin {"raw", "embstr"}
            THEN [pc |-> "finish", result |-> NUMA_KEY_MIGRATE_OK]
            ELSE [pc |-> "string_copy", result |-> ""]
      [] v.type = "hash" /\ v.encoding = "ziplist" -> [pc |-> "blob_copy", result |-> ""]
      [] v.type = "hash" /\ v.encoding = "ht" -> [pc |-> "dict_create", result |-> ""]
      [] v.type = "list" /\ v.encoding = "quicklist" -> [pc |-> "list_header", result |-> ""]
      [] v.type = "set" /\ v.encoding = "intset" -> [pc |-> "blob_copy", result |-> ""]
      [] v.type = "set" /\ v.encoding = "ht" -> [pc |-> "dict_create", result |-> ""]
      [] v.type = "zset" /\ v.encoding = "ziplist" -> [pc |-> "blob_copy", result |-> ""]
      [] v.type = "zset" /\ v.encoding = "skiplist" -> [pc |-> "zset_create", result |-> ""]
      [] OTHER -> [pc |-> "finish", result |-> NUMA_KEY_MIGRATE_ETYPE]

\* the order of the last two steps of a per-kind migration: the string, blob
\* and dict migrations store the new pointer and then release the old
\* structure; the quicklist and skiplist migrations release first
PublishesFirst(v) ==
    ~(v.type = "list" \/ (v.type = "zset" /\ v.encoding = "skiplist"))

AfterCopy(v) == IF PublishesFirst(v) THEN "publish" ELSE "release"

\* a cleanup that releases the header and leaves the linked nodes allocated
ListCleanupHeaderOnly(h, new_ql) == zfree(h, {new_ql})

\* the cleanup loop of migrate_list_type: every node linked so far with its
\* ziplist, then the header
ListCleanup(h, new_ql) == zfree(h, OwnedFlat(h, new_ql))

\* a link step that puts the new node in front of the nodes copied so far
LinkNodeAtHead(nodes, new_node) == <<new_node>> \o nodes

\* migrate_list_type, "Link nodes": the new node becomes the tail
LinkNode(nodes, new_node) == Append(nodes, new_node)

\* the cleanup of migrate_zset_type after the skiplist and dict exist
ZsetCleanup(h, new_zs) == zfree(h, Owned(h, new_zs))

\* sdsfree / zfree / dictRelease / the release loops on the old structure.
\* An embedded string is part of the value object: sdsfree on it hands
\* zfree a pointer into that object, whose bytes read as a size of 2^32 or
\* more and a non-zero pool flag, so numa_pool_free finds no size class and
\* releases nothing
ReleaseValue(h, v, old) ==
    IF v.encoding = "embstr" THEN h ELSE zfree(h, Owned(h, old))

(***************************************************************************)
(* numa_migrate_single_key, one step per allocation, per store of the      *)
(* value pointer and per release of the old structure.  ok inputs say      *)
(* whether the allocation of the step succeeds.                            *)
(***************************************************************************)
MigCall(key, target_node) ==
    [op |-> "migrate", key |-> key, target_node |-> target_node,
     old |-> val.ptr, new |-> 0, cur |-> 0, result |-> "",
     published |-> FALSE, released |-> FALSE,
     heap0 |-> heap, before |-> Content(heap, val)]

Returned(call, result) == [call EXCEPT !.result = result]

\* entry of numa_migrate_single_key: argument checks, lookup, dispatch
MigrateBegin(key, target_node) ==
    /\ pc = "idle" /\ nmigs < MaxMigrations
    /\ nmigs' = nmigs + 1
    /\ IF target_node < 0 \/ target_node > numa_max_node THEN
          /\ last' = Returned(MigCall(key, target_node), NUMA_KEY_MIGRATE_EINVAL)
          /\ UNCHANGED <<pc, mig>>
       ELSE IF key # "k1" THEN
          /\ last' = Returned(MigCall(key, target_node), NUMA_KEY_MIGRATE_ENOENT)
          /\ UNCHANGED <<pc, mig>>
       ELSE
          /\ pc' = FirstStep(val).pc
          /\ mig' = Returned(MigCall(key, target_node), FirstStep(val).result)
          /\ last' = NoCall
    /\ UNCHANGED <<heap, val, buf, key_metadata, stats, migrate_stats, lru_clock>>

\* a step that ends the per-kind function with out-of-memory, heap h left
Fail(h) ==
    /\ heap' = h
    /\ mig' = Returned(mig, NUMA_KEY_MIGRATE_ENOMEM)
    /\ pc' = "finish"

\* a step that continues at next_pc with heap h and locals m
Continue(h, m, next_pc) ==
    /\ heap' = h
    /\ mig' = m
    /\ pc' = next_pc

StepFrame == UNCHANGED <<val, buf, key_metadata, stats, migrate_stats, last, nmigs, lru_clock>>

\* migrate_string_type: sdsnewlen(old_str, sdslen(old_str))
StringCopy(ok) ==
    /\ pc = "string_copy"
    /\ IF ~ok THEN Fail(heap)
       ELSE Continue(zmalloc(heap, Sds(heap[mig.old].bytes)),
                     [mig EXCEPT !.new = NewId(heap)], AfterCopy(val))
    /\ StepFrame

\* ziplist and intset values: numa_zmalloc_onnode(len, target_node), memcpy
BlobCopy(ok) ==
    /\ pc = "blob_copy"
    /\ IF ~ok THEN Fail(heap)
       ELSE Continue(zmalloc(heap, Blob(heap[mig.old].bytes)),
                     [mig EXCEPT !.new = NewId(heap)], AfterCopy(val))
    /\ StepFrame

\* hashtable values: dictCreate, dictExpand
DictCreate(ok_create, ok_expand) ==
    /\ pc = "dict_create"
    /\ LET d == Obj("dict", <<>>, <<>>, heap[mig.old].dt)
           h1 == zmalloc(heap, d)
           new_dict == NewId(heap)
       IN  IF ~ok_create THEN Fail(heap)
           ELSE IF ~ok_expand THEN Fail(dictRelease(h1, new_dict))
           ELSE Continue(h1, [mig EXCEPT !.new = new_dict, !.cur = 1],
                         IF Len(heap[mig.old].items) = 0 THEN AfterCopy(val)
                         ELSE "dict_loop")
    /\ StepFrame

\* hashtable values: one turn of the dictNext loop
DictCopyEntry(ok_field, ok_value) ==
    /\ pc = "dict_loop"
    /\ LET entry == heap[mig.old].items[mig.cur]
           is_hash == heap[mig.old].dt = "hash"
           h1 == zmalloc(heap, Sds(heap[entry[1]].bytes))
           new_field == NewId(heap)
           h2 == IF is_hash THEN zmalloc(h1, Sds(heap[entry[2]].bytes)) ELSE h1
           new_value == IF is_hash THEN NewId(h1) ELSE 0
           h3 == [h2 EXCEPT ![mig.new].items = Append(@, <<new_field, new_value>>)]
           last_turn == mig.cur = Len(heap[mig.old].items)
       IN  IF ~ok_field THEN Fail(dictRelease(heap, mig.new))
           ELSE IF is_hash /\ ~ok_value
                THEN Fail(dictRelease(zfree(h1, {new_field}), mig.new))
           ELSE IF ~dictAddOk(h2, mig.new, new_field)
                THEN /\ heap' = dictRelease(zfree(h2, {new_field, new_value} \ {0}), mig.new)
                     /\ mig' = Returned(mig, NUMA_KEY_MIGRATE_ERR)
                     /\ pc' = "finish"
           ELSE Continue(h3, [mig EXCEPT !.cur = @ + 1],
                         IF last_turn THEN AfterCopy(val) ELSE "dict_loop")
    /\ StepFrame

\* migrate_list_type: zmalloc(sizeof(quicklist))
ListHeader(ok) ==
    /\ pc = "list_header"
    /\ IF ~ok THEN Fail(heap)
       ELSE Continue(zmalloc(heap, Obj("quicklist", <<>>, <<>>, "")),
                     [mig EXCEPT !.new = NewId(heap), !.cur = 1],
                     IF Len(heap[mig.old].items) = 0 THEN AfterCopy(val)
                     ELSE "list_loop")
    /\ StepFrame

\* migrate_list_type: one turn of the node loop (node, then its ziplist)
ListCopyNode(ok_node, ok_zl) ==
    /\ pc = "list_loop"
    /\ LET old_node == heap[mig.old].items[mig.cur]
           h1 == zmalloc(heap, Obj("quicklistNode", <<>>, <<0>>, ""))
           new_node == NewId(heap)
           h2 == zmalloc(h1, Blob(heap[heap[old_node].items[1]].bytes))
           zl == NewId(h1)
           h3 == [h2 EXCEPT ![new_node].items = <<zl>>,
                            ![mig.new].items = LinkNode(@, new_node)]
           last_turn == mig.cur = Len(heap[mig.old].items)
       IN  IF ~ok_node THEN Fail(ListCleanup(heap, mig.new))
           ELSE IF ~ok_zl THEN Fail(ListCleanup(zfree(h1, {new_node}), mig.new))
           ELSE Continue(h3, [mig EXCEPT !.cur = @ + 1],
                         IF last_turn THEN AfterCopy(val) ELSE "list_loop")
    /\ StepFrame

\* migrate_zset_type: zmalloc(sizeof(zset)), zslCreate, dictCreate,
\* dictExpand; fail_at names the first of the four that fails (0: none)
ZsetFailPoints == 0 .. 4

ZsetCreate(fail_at) ==
    /\ pc = "zset_create"
    /\ LET h1 == zmalloc(heap, Obj("zset", <<>>, <<0, 0>>, ""))
           new_zs == NewId(heap)
           h2 == zmalloc(h1, Obj("zskiplist", <<>>, <<>>, ""))
           zsl == NewId(h1)
           h3 == zmalloc(h2, Obj("dict", <<>>, <<>>, "zset"))
           d == NewId(h2)
           h4 == [h3 EXCEPT ![new_zs].items = <<d, zsl>>]
           n == Len(heap[heap[mig.old].items[2]].items)
       IN  CASE fail_at = 1 -> Fail(heap)
             [] fail_at = 2 -> Fail(zfree(h1, {new_zs}))
             [] fail_at = 3 -> Fail(zfree(zslFree(h2, zsl), {new_zs}))
             [] fail_at = 4 -> Fail(zfree(zslFree(dictRelease(h3, d), zsl), {new_zs}))
             [] OTHER -> Continue(h4, [mig EXCEPT !.new = new_zs, !.cur = n],
                                  IF n = 0 THEN AfterCopy(val) ELSE "zset_loop")
    /\ StepFrame

\* migrate_zset_type: one turn of the loop from the tail to the head
ZsetCopyElement(ok) ==
    /\ pc = "zset_loop"
    /\ LET old_node == heap[heap[mig.old].items[2]].items[mig.cur]
           h1 == zmalloc(heap, Sds(heap[old_node[2]].bytes))
           new_ele == NewId(heap)
           d == heap[mig.new].items[1]
           zsl == heap[mig.new].items[2]
           h2 == [h1 EXCEPT
                    ![zsl].items = zslInsert(h1, @, old_node[1], new_ele),
                    ![d].items = IF dictAddOk(h1, d, new_ele)
                                 THEN Append(@, <<new_ele, old_node[1]>>) ELSE @]
       IN  IF ~ok THEN Fail(ZsetCleanup(heap, mig.new))
           ELSE Continue(h2, [mig EXCEPT !.cur = @ - 1],
                         IF mig.cur = 1 THEN AfterCopy(val) ELSE "zset_loop")
    /\ StepFrame

\* val_obj->ptr = new
Publish ==
    /\ pc = "publish"
    /\ val' = [val EXCEPT !.ptr = mig.new]
    /\ mig' = [mig EXCEPT !.published = TRUE,
                          !.result = IF mig.released THEN NUMA_KEY_MIGRATE_OK ELSE @]
    /\ pc' = IF mig.released THEN "finish" ELSE "release"
    /\ UNCHANGED <<heap, buf, key_metadata, stats, migrate_stats, last, nmigs, lru_clock>>

\* the release of the old structure
ReleaseOld ==
    /\ pc = "release"
    /\ heap' = ReleaseValue(heap, val, mig.old)
    /\ mig' = [mig EXCEPT !.released = TRUE,
                          !.result = IF mig.published THEN NUMA_KEY_MIGRATE_OK ELSE @]
    /\ pc' = IF mig.published THEN "finish" ELSE "publish"
    /\ StepFrame

\* a tail that counts the call and the successes but no failure
MigrateFinishFailureUncounted ==
    /\ pc = "finish"
    /\ stats' = [stats EXCEPT
                   !.total_migrations = @ + 1,
                   !.successful_migrations =
                       IF mig.result = NUMA_KEY_MIGRATE_OK THEN @ + 1 ELSE @]
    /\ key_metadata' =
          IF mig.result = NUMA_KEY_MIGRATE_OK /\ mig.key \in DOMAIN key_metadata
          THEN [key_metadata EXCEPT ![mig.key].current_node = mig.target_node]
          ELSE key_metadata
    /\ last' = mig
    /\ mig' = NoCall
    /\ pc' = "idle"
    /\ UNCHANGED <<heap, val, buf, migrate_stats, nmigs, lru_clock>>

\* the tail of numa_migrate_single_key: statistics and key metadata
MigrateFinish ==
    /\ pc = "finish"
    /\ stats' = [stats EXCEPT
                   !.total_migrations = @ + 1,
                   !.successful_migrations =
                       IF mig.result = NUMA_KEY_MIGRATE_OK THEN @ + 1 ELSE @,
                   !.failed_migrations =
                       IF mig.result = NUMA_KEY_MIGRATE_OK THEN @ ELSE @ + 1]
    /\ key_metadata' =
          IF mig.result = NUMA_KEY_MIGRATE_OK /\ mig.key \in DOMAIN key_metadata
          THEN [key_metadata EXCEPT ![mig.key].current_node = mig.target_node]
          ELSE key_metadata
    /\ last' = mig
    /\ mig' = NoCall
    /\ pc' = "idle"
    /\ UNCHANGED <<heap, val, buf, migrate_stats, nmigs, lru_clock>>

\* numa_migrate_memory(buf.ptr, size, target_node); the owner stores the
\* pointer it returns
BlockSizes == {0, 1, 2}

numa_migrate_memory(size, target_node, ok) ==
    /\ pc = "idle" /\ nmigs < MaxMigrations
    /\ nmigs' = nmigs + 1
    /\ size <= buf.size
    /\ LET call == [op |-> "migrate_memory", size |-> size,
                    target_node |-> target_node,
                    before |-> SubSeq(heap[buf.ptr].bytes, 1, size)]
       IN  IF size = 0 \/ target_node < 0 \/ target_node > numa_max_node THEN
              /\ last' = [call EXCEPT !.op = "migrate_memory_null"]
              /\ UNCHANGED <<heap, buf, migrate_stats>>
           ELSE IF ~ok THEN
              /\ migrate_stats' = [migrate_stats EXCEPT !.failed_migrations = @ + 1]
              /\ last' = [call EXCEPT !.op = "migrate_memory_null"]
              /\ UNCHANGED <<heap, buf>>
           ELSE
              /\ heap' = zfree(zmalloc(heap, Blob(SubSeq(heap[buf.ptr].bytes, 1, size))),
                               {buf.ptr})
              /\ buf' = [ptr |-> NewId(heap), size |-> size]
              /\ migrate_stats' = [migrate_stats EXCEPT
                                     !.total_migrations = @ + 1,
                                     !.bytes_migrated = @ + size]
              /\ last' = call
    /\ UNCHANGED <<val, key_metadata, stats, pc, mig, lru_clock>>

\* create_key_metadata
create_key_metadata ==
    [current_node |-> 0, hotness_level |-> HOTNESS_DEFAULT,
     last_access_time |-> lru_clock, memory_footprint |-> 0, access_count |-> 1]

\* numa_record_key_access(key, val) from a CPU of node cpu_node
MaxAccessCount == 3     \* access_count a record may reach

numa_record_key_access(key, cpu_node) ==
    /\ pc = "idle"
    /\ LET meta == IF key \in DOMAIN key_metadata THEN key_metadata[key]
                   ELSE create_key_metadata
           local == meta.current_node = cpu_node
           updated == [meta EXCEPT
                         !.access_count = @ + 1,
                         !.last_access_time = lru_clock,
                         !.hotness_level =
                             IF local /\ @ < HOTNESS_MAX_LEVEL THEN @ + 1 ELSE @]
       IN  /\ meta.access_count < MaxAccessCount
           /\ key_metadata' = [k \in DOMAIN key_metadata \cup {key} |->
                                 IF k = key THEN updated ELSE key_metadata[k]]
    /\ last' = NoCall
    /\ UNCHANGED <<heap, val, buf, stats, migrate_stats, pc, mig, nmigs, lru_clock>>

\* numa_get_key_current_node(key)
numa_get_key_current_node(key) ==
    IF key \in DOMAIN key_metadata THEN key_metadata[key].current_node ELSE -1

InitMig ==
    /\ AllocQuiet /\ LruQuiet /\ SlotQuiet /\ MoreQuiet
    /\ \E v \in InitialValues : heap = v.heap /\ val = v.val
    /\ buf = [ptr |-> 1, size |-> 2]
    /\ key_metadata = <<>>
    /\ stats = [total_migrations |-> 0, successful_migrations |-> 0, failed_migrations |-> 0]
    /\ migrate_stats = [total_migrations |-> 0, failed_migrations |-> 0, bytes_migrated |-> 0]
    /\ pc = "idle" /\ mig = NoCall /\ last = NoCall /\ nmigs = 0 /\ lru_clock = 0

NextMig ==
    \/ \E key \in KeyArgs, target_node \in TargetArgs :
          MigrateBegin(key, target_node) /\ UNCHANGED <<allocVars, lruVars, slotVars, moreVars>>
    \/ \E ok \in BOOLEAN : StringCopy(ok) /\ UNCHANGED <<allocVars, lruVars, slotVars, moreVars>>
    \/ \E ok \in BOOLEAN : BlobCopy(ok) /\ UNCHANGED <<allocVars, lruVars, slotVars, moreVars>>
    \/ \E ok_create \in BOOLEAN, ok_expand \in BOOLEAN :
          DictCreate(ok_create, ok_expand) /\ UNCHANGED <<allocVars, lruVars, slotVars, moreVars>>
    \/ \E ok_field \in BOOLEAN, ok_value \in BOOLEAN :
          DictCopyEntry(ok_field, ok_value) /\ UNCHANGED <<allocVars, lruVars, slotVars, moreVars>>
    \/ \E ok \in BOOLEAN : ListHeader(ok) /\ UNCHANGED <<allocVars, lruVars, slotVars, moreVars>>
    \/ \E ok_node \in BOOLEAN, ok_zl \in BOOLEAN :
          ListCopyNode(ok_node, ok_zl) /\ UNCHANGED <<allocVars, lruVars, slotVars, moreVars>>
    \/ \E fail_at \in ZsetFailPoints : ZsetCreate(fail_at) /\ UNCHANGED <<allocVars, lruVars, slotVars, moreVars>>
    \/ \E ok \in BOOLEAN : ZsetCopyElement(ok) /\ UNCHANGED <<allocVars, lruVars, slotVars, moreVars>>
    \/ Publish /\ UNCHANGED <<allocVars, lruVars, slotVars, moreVars>>
    \/ ReleaseOld /\ UNCHANGED <<allocVars, lruVars, slotVars, moreVars>>
    \/ MigrateFinish /\ UNCHANGED <<allocVars, lruVars, slotVars, moreVars>>
    \/ \E size \in BlockSizes, target_node \in TargetArgs, ok \in BOOLEAN :
          numa_migrate_memory(size, target_node, ok) /\ UNCHANGED <<allocVars, lruVars, slotVars, moreVars>>
    \/ \E cpu_node \in Nodes :
          numa_record_key_access("k1", cpu_node) /\ UNCHANGED <<allocVars, lruVars, slotVars, moreVars>>

SpecMig == InitMig /\ [][NextMig]_vars

(***************************************************************************)
(* Claims about migration.                                                 *)
(***************************************************************************)
MigrateReturnedOk ==
    pc = "idle" /\ last.op = "migrate" /\ last.result = NUMA_KEY_MIGRATE_OK

\* C3: after a migration that returns ok the value is a complete structure
\* with the content it had before the migration (bytes, field/value pairs,
\* list elements in order, members, element/score pairs in rank order); a
\* migrated raw block holds the bytes it held before
C3_ContentPreserved ==
    /\ MigrateReturnedOk =>
          /\ Intact(heap, val)
          /\ Content(heap, val) = last.before
    /\ last.op = "migrate_memory" =>
          /\ heap[buf.ptr].live
          /\ heap[buf.ptr].bytes = last.before

\* witness of C3: a two-node list has been migrated into new allocations
C3_Witness ==
    /\ MigrateReturnedOk
    /\ val.type = "list" /\ val.ptr # last.old
    /\ Len(heap[val.ptr].items) = 2

C5_PointerNeverDangling == Intact(heap, val)

\* C6: right after a migration of a key to a node returned ok,
\* numa_get_key_current_node of the key is that node
C6_CurrentNodeIsTarget ==
    MigrateReturnedOk => numa_get_key_current_node(last.key) = last.target_node


(***************************************************************************)
(* The composite-LRU hot-key tracker (numa_composite_lru.c).               *)
(***************************************************************************)
MaxLruAccesses == 9     \* access_count a heat record may reach
MaxTicks == 2           \* advances of the clock per run
MaxConfigs == 1         \* set_config calls per run
MaxDecayTicks == 258    \* advances of the clock per run of the decay chain
MaxThreadCalls == 2     \* record_access calls per worker thread

LruKeys == {"a"}
TickSteps == {1, 11}                \* seconds the clock advances at once
DecayTickSteps == {11}
ClockStarts == {0, 65530}           \* time (s) at composite_lru_init
StabilityValues == {0, 1}           \* set_config stability_count values
DecayStabilityValues == {0, 3, 254, 255}
DecayValues == {5}                  \* set_config decay_threshold values (s)
MigrateValues == {6}                \* set_config migrate_threshold values
StartHotness == {1, 6}              \* hotness of the record the threads share

COMPOSITE_LRU_DEFAULT_DECAY_THRESHOLD == 10000000
COMPOSITE_LRU_DEFAULT_STABILITY_COUNT == 3
COMPOSITE_LRU_DEFAULT_MIGRATE_THRESHOLD == 5
COMPOSITE_LRU_HOTNESS_MAX == 7
COMPOSITE_LRU_PENDING_TIMEOUT == 30000000
COMPOSITE_LRU_HOTNESS_MIN == 0

U8(x) == x % 256
U16(x) == x % 65536

\* get_lru_clock(): (uint16_t)(tv.tv_sec & 0xFFFF)
get_lru_clock == U16(now)

\* a delta over the wrap that leaves out the step from 65535 to 0
calculate_time_delta_short(current, last_time) ==
    IF current >= last_time THEN U16(current - last_time)
    ELSE U16((65535 - last_time) + current)

\* calculate_time_delta(current, last) on uint16_t
calculate_time_delta(current, last_time) ==
    IF current >= last_time THEN U16(current - last_time)
    ELSE U16((65535 - last_time) + current + 1)

\* the record composite_lru_record_access creates on the first access
NewHeatInfo(cpu_node, current_time) ==
    [hotness |-> 1, stability_counter |-> 0, last_access |-> current_time,
     access_count |-> 1, current_node |-> cpu_node, preferred_node |-> -1]

\* a local access that increments without the test against the maximum
BumpHotnessUnchecked(hotness) == U8(hotness + 1)

\* local access: if (info->hotness < COMPOSITE_LRU_HOTNESS_MAX) info->hotness++
BumpHotness(hotness) ==
    IF hotness < COMPOSITE_LRU_HOTNESS_MAX THEN U8(hotness + 1) ELSE hotness

\* the access statistics composite_lru_record_access updates on every access
TouchInfo(info, current_time) ==
    [info EXCEPT !.access_count = @ + 1, !.last_access = current_time]

\* composite_lru_record_access on an existing record
AccessInfo(info, cpu_node, current_time) ==
    IF info.current_node = cpu_node
    THEN [TouchInfo(info, current_time) EXCEPT !.hotness = BumpHotness(@),
                                               !.stability_counter = 0]
    ELSE [TouchInfo(info, current_time) EXCEPT !.preferred_node = cpu_node]

\* decay_threshold_lru = (uint16_t)(data->decay_threshold / 1000000)
decay_threshold_lru == U16(decay_threshold \div 1000000)

\* composite_lru_decay_heat: time_diff > decay_threshold_lru
IsCold(info, current_time) ==
    calculate_time_delta(current_time, info.last_access) > decay_threshold_lru

\* composite_lru_decay_heat on one record
DecayInfo(info, current_time) ==
    IF IsCold(info, current_time)
    THEN LET counter == U8(info.stability_counter + 1)
         IN  IF counter > stability_count
             THEN [info EXCEPT !.stability_counter = 0,
                               !.hotness = IF @ > COMPOSITE_LRU_HOTNESS_MIN
                                           THEN @ - 1 ELSE @]
             ELSE [info EXCEPT !.stability_counter = counter]
    ELSE [info EXCEPT !.stability_counter = 0]

\* ghost: the passes in a row that found the record cold since its last
\* access, counted up to two more than the configured stability count
CountCold(n, cold) ==
    IF ~cold THEN 0 ELSE IF n < stability_count + 2 THEN n + 1 ELSE n

ThreadsIdle ==
    /\ tpc.at = "idle"
    /\ \A t \in Workers : wpc[t].at = "idle"

\* composite_lru_record_access(strategy, key, val) on a CPU of node cpu_node
composite_lru_record_access(key, cpu_node) ==
    /\ ThreadsIdle
    /\ IF key \notin DOMAIN key_heat_map THEN
          key_heat_map' = [k \in DOMAIN key_heat_map \cup {key} |->
                             IF k = key THEN NewHeatInfo(cpu_node, get_lru_clock)
                             ELSE key_heat_map[k]]
       ELSE
          /\ key_heat_map[key].access_count < MaxLruAccesses
          /\ key_heat_map' = [key_heat_map EXCEPT
                                ![key] = AccessInfo(@, cpu_node, get_lru_clock)]
    /\ heat_updates' = heat_updates + 1
    /\ cold_passes' = [k \in DOMAIN key_heat_map \cup {key} |->
                         IF k = key THEN 0 ELSE cold_passes[k]]
    /\ UNCHANGED <<stability_count, decay_threshold, migrate_hotness_threshold,
                   decay_operations, last_decay_time, now, nticks, nconfigs,
                   wpc, tpc, ncalls>>
    /\ UNCHANGED lruPending

\* process_pending_migrations: an entry older than
\* COMPOSITE_LRU_PENDING_TIMEOUT is dropped and counted as a timeout; for any
\* other entry check_resource_status returns RESOURCE_AVAILABLE, so it is
\* counted as triggered and dropped
PendingTimedOut(pm) == now - pm.enqueue_time > COMPOSITE_LRU_PENDING_TIMEOUT \div 1000000

process_pending_migrations ==
    /\ pending_timeouts' = pending_timeouts +
          Len(SelectSeq(pending_migrations, PendingTimedOut))
    /\ migrations_triggered' = migrations_triggered +
          Len(SelectSeq(pending_migrations, LAMBDA pm : ~PendingTimedOut(pm)))
    /\ pending_migrations' = <<>>

\* composite_lru_execute: now - data->last_decay_time > data->decay_threshold,
\* in microseconds; the model's times are whole seconds
DecayDue == now - last_decay_time > decay_threshold \div 1000000

\* composite_lru_execute(strategy): the periodic pass
composite_lru_execute ==
    /\ ThreadsIdle
    /\ IF DecayDue
       THEN /\ key_heat_map' = [k \in DOMAIN key_heat_map |->
                                  DecayInfo(key_heat_map[k], get_lru_clock)]
            /\ decay_operations' = decay_operations +
                  Cardinality({k \in DOMAIN key_heat_map :
                      key_heat_map[k].hotness # DecayInfo(key_heat_map[k],
                                                          get_lru_clock).hotness})
            /\ cold_passes' = [k \in DOMAIN key_heat_map |->
                                 CountCold(cold_passes[k],
                                           IsCold(key_heat_map[k], get_lru_clock))]
            /\ last_decay_time' = now
       ELSE UNCHANGED <<key_heat_map, decay_operations, cold_passes,
                        last_decay_time>>
    /\ UNCHANGED <<stability_count, decay_threshold, migrate_hotness_threshold,
                   heat_updates, now, nticks, nconfigs, wpc, tpc, ncalls>>
    /\ process_pending_migrations

\* composite_lru_set_config(strategy, key, value) with a numeric value
composite_lru_set_config(key, value) ==
    /\ ThreadsIdle
    /\ nconfigs < MaxConfigs
    /\ nconfigs' = nconfigs + 1
    \* (uint32_t)atoi(value) * 1000000: DecayValues stay below 4294, where
    \* the product fits in 32 bits
    /\ decay_threshold' = IF key = "decay_threshold"
                          THEN value * 1000000 ELSE decay_threshold
    /\ stability_count' = IF key = "stability_count" THEN U8(value)
                          ELSE stability_count
    /\ migrate_hotness_threshold' = IF key = "migrate_threshold" THEN U8(value)
                                    ELSE migrate_hotness_threshold
    /\ UNCHANGED <<key_heat_map, heat_updates, decay_operations,
                   last_decay_time, now, cold_passes, nticks, wpc, tpc, ncalls>>
    /\ UNCHANGED lruPending

\* time passes: gettimeofday advances by step seconds
Tick(step, limit) ==
    /\ nticks < limit
    /\ nticks' = nticks + 1
    /\ now' = now + step
    /\ UNCHANGED <<key_heat_map, stability_count, decay_threshold,
                   migrate_hotness_threshold, heat_updates, decay_operations,
                   last_decay_time, cold_passes, nconfigs, wpc, tpc, ncalls>>
    /\ UNCHANGED lruPending

\* composite_lru_init
LruDefaults ==
    /\ stability_count = COMPOSITE_LRU_DEFAULT_STABILITY_COUNT
    /\ decay_threshold = COMPOSITE_LRU_DEFAULT_DECAY_THRESHOLD
    /\ migrate_hotness_threshold = COMPOSITE_LRU_DEFAULT_MIGRATE_THRESHOLD
    /\ heat_updates = 0 /\ decay_operations = 0

InitLru ==
    /\ AllocQuiet /\ MigQuiet /\ SlotQuiet /\ MoreQuiet
    /\ LruDefaults /\ NoThreads /\ NoPending
    /\ key_heat_map = <<>> /\ cold_passes = <<>>
    /\ now \in ClockStarts /\ last_decay_time = now
    /\ nticks = 0 /\ nconfigs = 0

NextLru ==
    \/ \E key \in LruKeys, cpu_node \in Nodes :
          composite_lru_record_access(key, cpu_node) /\ UNCHANGED <<allocVars, migVars, slotVars, moreVars>>
    \/ composite_lru_execute /\ UNCHANGED <<allocVars, migVars, slotVars, moreVars>>
    \/ \E value \in StabilityValues :
          composite_lru_set_config("stability_count", value)
          /\ UNCHANGED <<allocVars, migVars, slotVars, moreVars>>
    \/ \E value \in DecayValues :
          composite_lru_set_config("decay_threshold", value)
          /\ UNCHANGED <<allocVars, migVars, slotVars, moreVars>>
    \/ \E value \in MigrateValues :
          composite_lru_set_config("migrate_threshold", value)
          /\ UNCHANGED <<allocVars, migVars, slotVars, moreVars>>
    \/ \E step \in TickSteps : Tick(step, MaxTicks) /\ UNCHANGED <<allocVars, migVars, slotVars, moreVars>>

SpecLru == InitLru /\ [][NextLru]_vars

\* a record that saw hotness local accesses at the time of composite_lru_init
\* and none since
StartInfo(hotness) ==
    [hotness |-> hotness, stability_counter |-> 0, last_access |-> get_lru_clock,
     access_count |-> hotness, current_node |-> 0, preferred_node |-> -1]

\* the decay chain: a configured stability_count, one record nobody accesses
InitDecay ==
    /\ AllocQuiet /\ MigQuiet /\ SlotQuiet /\ MoreQuiet
    /\ NoThreads /\ NoPending
    /\ stability_count \in DecayStabilityValues
    /\ decay_threshold = COMPOSITE_LRU_DEFAULT_DECAY_THRESHOLD
    /\ migrate_hotness_threshold = COMPOSITE_LRU_DEFAULT_MIGRATE_THRESHOLD
    /\ now = 0 /\ last_decay_time = 0
    /\ \E hotness \in {1, 2} :
          /\ key_heat_map = [k \in LruKeys |-> StartInfo(hotness)]
          /\ heat_updates = hotness
    /\ decay_operations = 0
    /\ cold_passes = [k \in LruKeys |-> 0]
    /\ nticks = 0 /\ nconfigs = 1

NextDecay ==
    \/ composite_lru_execute /\ UNCHANGED <<allocVars, migVars, slotVars, moreVars>>
    \* the ticker runs a pass that is due before the clock advances again
    \/ \E step \in DecayTickSteps :
          ~DecayDue /\ Tick(step, MaxDecayTicks) /\ UNCHANGED <<allocVars, migVars, slotVars, moreVars>>

SpecDecay == InitDecay /\ [][NextDecay]_vars

(***************************************************************************)
(* The tracker with worker threads calling composite_lru_record_access and *)
(* the ticker thread calling composite_lru_execute.  The file takes no     *)
(* lock, so the statements of the calls interleave.  A read-modify-write   *)
(* of hotness that races with another thread's write either works on the   *)
(* value the thread tested (kept in a register) or on the value in memory  *)
(* (loaded again).  The updates of the access statistics and of the        *)
(* stability counter are single steps.                                     *)
(***************************************************************************)
SetWorker(t, at) == wpc' = [wpc EXCEPT ![t] = at]

\* composite_lru_record_access up to the node affinity test
RecordAccessBegin(t, key, cpu_node) ==
    /\ wpc[t].at = "idle"
    /\ ncalls[t] < MaxThreadCalls
    /\ key \in DOMAIN key_heat_map
    /\ ncalls' = [ncalls EXCEPT ![t] = @ + 1]
    /\ heat_updates' = heat_updates + 1
    /\ IF key_heat_map[key].current_node = cpu_node
       THEN /\ key_heat_map' = [key_heat_map EXCEPT
                                   ![key] = TouchInfo(@, get_lru_clock)]
            /\ SetWorker(t, [at |-> "test", key |-> key])
       ELSE /\ key_heat_map' = [key_heat_map EXCEPT
                                   ![key] = [TouchInfo(@, get_lru_clock)
                                                EXCEPT !.preferred_node = cpu_node]]
            /\ SetWorker(t, Idle)
    /\ UNCHANGED <<stability_count, decay_threshold, migrate_hotness_threshold,
                   decay_operations, last_decay_time, now, cold_passes, nticks,
                   nconfigs, tpc>>
    /\ UNCHANGED lruPending

\* if (info->hotness < COMPOSITE_LRU_HOTNESS_MAX)
RecordAccessTest(t) ==
    /\ wpc[t].at = "test"
    /\ IF key_heat_map[wpc[t].key].hotness < COMPOSITE_LRU_HOTNESS_MAX
       THEN SetWorker(t, [at |-> "increment", key |-> wpc[t].key,
                          seen |-> key_heat_map[wpc[t].key].hotness])
       ELSE SetWorker(t, [at |-> "reset", key |-> wpc[t].key])
    /\ UNCHANGED <<key_heat_map, stability_count, decay_threshold,
                   migrate_hotness_threshold, heat_updates, decay_operations,
                   last_decay_time, now, cold_passes, nticks, nconfigs, tpc, ncalls>>
    /\ UNCHANGED lruPending

\* info->hotness++
RecordAccessIncrement(t, reload) ==
    /\ wpc[t].at = "increment"
    /\ key_heat_map' = [key_heat_map EXCEPT ![wpc[t].key].hotness =
                           U8((IF reload THEN @ ELSE wpc[t].seen) + 1)]
    /\ SetWorker(t, [at |-> "reset", key |-> wpc[t].key])
    /\ UNCHANGED <<stability_count, decay_threshold, migrate_hotness_threshold,
                   heat_updates, decay_operations, last_decay_time, now,
                   cold_passes, nticks, nconfigs, tpc, ncalls>>
    /\ UNCHANGED lruPending

\* info->stability_counter = 0
RecordAccessReset(t) ==
    /\ wpc[t].at = "reset"
    /\ key_heat_map' = [key_heat_map EXCEPT ![wpc[t].key].stability_counter = 0]
    /\ SetWorker(t, Idle)
    /\ UNCHANGED <<stability_count, decay_threshold, migrate_hotness_threshold,
                   heat_updates, decay_operations, last_decay_time, now,
                   cold_passes, nticks, nconfigs, tpc, ncalls>>
    /\ UNCHANGED lruPending

\* composite_lru_execute on the ticker thread: the test of the decay period
\* and the start of composite_lru_decay_heat
ExecuteBegin ==
    /\ tpc.at = "idle"
    /\ DecayDue
    /\ tpc' = [at |-> "visit", todo |-> DOMAIN key_heat_map,
               current_time |-> get_lru_clock, started |-> now]
    /\ UNCHANGED <<key_heat_map, stability_count, decay_threshold,
                   migrate_hotness_threshold, heat_updates, decay_operations,
                   last_decay_time, now, cold_passes, nticks, nconfigs, wpc, ncalls>>
    /\ UNCHANGED lruPending

\* composite_lru_decay_heat: the next record of the iteration, up to the
\* test of its hotness
DecayVisit(key) ==
    /\ tpc.at = "visit"
    /\ key \in tpc.todo
    /\ LET info == key_heat_map[key]
           counter == U8(info.stability_counter + 1)
           rest == [tpc EXCEPT !.todo = @ \ {key}]
       IN  IF IsCold(info, tpc.current_time)
           THEN /\ key_heat_map' = [key_heat_map EXCEPT
                                       ![key].stability_counter = counter]
                /\ tpc' = IF counter > stability_count
                          THEN IF info.hotness > COMPOSITE_LRU_HOTNESS_MIN
                               THEN [rest EXCEPT !.at = "decrement"] @@
                                    [key |-> key, seen |-> info.hotness]
                               ELSE [rest EXCEPT !.at = "clear"] @@ [key |-> key]
                          ELSE rest
           ELSE /\ key_heat_map' = [key_heat_map EXCEPT
                                       ![key].stability_counter = 0]
                /\ tpc' = rest
    /\ UNCHANGED <<stability_count, decay_threshold, migrate_hotness_threshold,
                   heat_updates, decay_operations, last_decay_time, now,
                   cold_passes, nticks, nconfigs, wpc, ncalls>>
    /\ UNCHANGED lruPending

\* info->hotness--; data->decay_operations++
DecayDecrement(reload) ==
    /\ tpc.at = "decrement"
    /\ key_heat_map' = [key_heat_map EXCEPT ![tpc.key].hotness =
                           U8((IF reload THEN @ ELSE tpc.seen) + 255)]
    /\ decay_operations' = decay_operations + 1
    /\ tpc' = [at |-> "clear", todo |-> tpc.todo, current_time |-> tpc.current_time,
               started |-> tpc.started, key |-> tpc.key]
    /\ UNCHANGED <<stability_count, decay_threshold, migrate_hotness_threshold,
                   heat_updates, last_decay_time, now, cold_passes, nticks,
                   nconfigs, wpc, ncalls>>
    /\ UNCHANGED lruPending

\* info->stability_counter = 0 after the counter exceeded stability_count
DecayClear ==
    /\ tpc.at = "clear"
    /\ key_heat_map' = [key_heat_map EXCEPT ![tpc.key].stability_counter = 0]
    /\ tpc' = [at |-> "visit", todo |-> tpc.todo, current_time |-> tpc.current_time,
               started |-> tpc.started]
    /\ UNCHANGED <<stability_count, decay_threshold, migrate_hotness_threshold,
                   heat_updates, decay_operations, last_decay_time, now,
                   cold_passes, nticks, nconfigs, wpc, ncalls>>
    /\ UNCHANGED lruPending

\* the iteration is over: data->last_decay_time = now
ExecuteEnd ==
    /\ tpc.at = "visit"
    /\ tpc.todo = {}
    /\ last_decay_time' = tpc.started
    /\ tpc' = Idle
    /\ UNCHANGED <<key_heat_map, stability_count, decay_threshold,
                   migrate_hotness_threshold, heat_updates, decay_operations,
                   now, cold_passes, nticks, nconfigs, wpc, ncalls>>
    /\ process_pending_migrations

\* the tracker after set_config of a stability_count and StartHotness local
\* accesses to one key
InitLruConc ==
    /\ AllocQuiet /\ MigQuiet /\ SlotQuiet /\ MoreQuiet
    /\ NoThreads /\ NoPending
    /\ stability_count \in StabilityValues
    /\ decay_threshold = COMPOSITE_LRU_DEFAULT_DECAY_THRESHOLD
    /\ migrate_hotness_threshold = COMPOSITE_LRU_DEFAULT_MIGRATE_THRESHOLD
    /\ now = 0 /\ last_decay_time = 0
    /\ \E hotness \in StartHotness :
          /\ key_heat_map = [k \in LruKeys |-> StartInfo(hotness)]
          /\ heat_updates = hotness
    /\ decay_operations = 0
    /\ cold_passes = [k \in LruKeys |-> 0]
    /\ nticks = 0 /\ nconfigs = 1

NextLruConc ==
    \/ \E t \in Workers, key \in LruKeys, cpu_node \in Nodes :
          RecordAccessBegin(t, key, cpu_node) /\ UNCHANGED <<allocVars, migVars, slotVars, moreVars>>
    \/ \E t \in Workers : RecordAccessTest(t) /\ UNCHANGED <<allocVars, migVars, slotVars, moreVars>>
    \/ \E t \in Workers, reload \in BOOLEAN :
          RecordAccessIncrement(t, reload) /\ UNCHANGED <<allocVars, migVars, slotVars, moreVars>>
    \/ \E t \in Workers : RecordAccessReset(t) /\ UNCHANGED <<allocVars, migVars, slotVars, moreVars>>
    \/ ExecuteBegin /\ UNCHANGED <<allocVars, migVars, slotVars, moreVars>>
    \/ \E key \in LruKeys : DecayVisit(key) /\ UNCHANGED <<allocVars, migVars, slotVars, moreVars>>
    \/ \E reload \in BOOLEAN : DecayDecrement(reload) /\ UNCHANGED <<allocVars, migVars, slotVars, moreVars>>
    \/ DecayClear /\ UNCHANGED <<allocVars, migVars, slotVars, moreVars>>
    \/ ExecuteEnd /\ UNCHANGED <<allocVars, migVars, slotVars, moreVars>>
    \/ \E step \in TickSteps : Tick(step, MaxTicks) /\ UNCHANGED <<allocVars, migVars, slotVars, moreVars>>

SpecLruConc == InitLruConc /\ [][NextLruConc]_vars

\* C7: whatever the interleaving of the workers' record_access calls and the
\* ticker's decay, the hotness of every record is within 0..7
C7_HotnessInRange ==
    \A k \in DOMAIN key_heat_map :
        key_heat_map[k].hotness \in COMPOSITE_LRU_HOTNESS_MIN .. COMPOSITE_LRU_HOTNESS_MAX


(***************************************************************************)
(* Claims about the hot-key tracker, one thread.                           *)
(***************************************************************************)
\* C8: with a stability gate configured (stability_count >= 1), a decay pass
\* that finds a record cold for the first time since its last access leaves
\* the record's hotness unchanged
C8_SingleColdPassKeepsHotness ==
    [][\A k \in DOMAIN key_heat_map :
          (/\ stability_count >= 1
           /\ k \in DOMAIN cold_passes'
           /\ cold_passes[k] = 0 /\ cold_passes'[k] = 1)
              => key_heat_map'[k].hotness = key_heat_map[k].hotness]_vars

\* C9: for the configured stability_count c and a record with hotness > 0
\* that nobody accesses, the (c+1)-th cold decay pass in a row takes one off
\* the hotness and sets the stability counter to 0, and none of the c passes
\* before it changes the hotness
C9_DecayOnPassAfterCount ==
    [][\A k \in DOMAIN key_heat_map :
          (/\ key_heat_map[k].hotness > 0
           /\ cold_passes'[k] = cold_passes[k] + 1)
              => IF cold_passes'[k] = stability_count + 1
                 THEN /\ key_heat_map'[k].hotness = key_heat_map[k].hotness - 1
                      /\ key_heat_map'[k].stability_counter = 0
                 ELSE cold_passes'[k] <= stability_count
                          => key_heat_map'[k].hotness = key_heat_map[k].hotness]_vars

\* C10: record_access on an existing record from the node the record is on
\* sets hotness to min(hotness + 1, 7) and the stability counter to 0; from
\* another node it sets preferred_node to the accessing node and leaves
\* hotness and current_node unchanged
C10_AccessUpdatesRecord ==
    [][\A k \in DOMAIN key_heat_map, n \in Nodes :
          composite_lru_record_access(k, n) =>
              IF key_heat_map[k].current_node = n
              THEN /\ key_heat_map'[k].hotness =
                         IF key_heat_map[k].hotness + 1 < 7
                         THEN key_heat_map[k].hotness + 1 ELSE 7
                   /\ key_heat_map'[k].stability_counter = 0
              ELSE /\ key_heat_map'[k].preferred_node = n
                   /\ key_heat_map'[k].hotness = key_heat_map[k].hotness
                   /\ key_heat_map'[k].current_node = key_heat_map[k].current_node]_vars

\* witness of C10: a record has been accessed from the other node, and from
\* its own node until its hotness was 7 and once more, after decay passes
\* had counted it cold
C10_Witness ==
    \E k \in DOMAIN key_heat_map :
        /\ key_heat_map[k].hotness = COMPOSITE_LRU_HOTNESS_MAX
        /\ key_heat_map[k].access_count = MaxLruAccesses
        /\ key_heat_map[k].preferred_node \in Nodes \ {key_heat_map[k].current_node}
        /\ key_heat_map[k].stability_counter = 0
        /\ last_decay_time > 0

\* C11: when record_access is a remote access to a record whose hotness is at
\* least migrate_threshold, a pending migration of that key to the accessing
\* node is on the pending queue when the call returns
C11_RemoteHotAccessEnqueues ==
    [][\A k \in DOMAIN key_heat_map, n \in Nodes :
          (/\ composite_lru_record_access(k, n)
           /\ key_heat_map[k].current_node # n
           /\ key_heat_map[k].hotness >= migrate_hotness_threshold)
              => \E i \in DOMAIN pending_migrations' :
                    /\ pending_migrations'[i].key = k
                    /\ pending_migrations'[i].target_node = n]_vars

(***************************************************************************)
(* The strategy slot framework (numa_strategy_slots.c): the slot table,    *)
(* the factory registry and the scheduler, with the calls of one thread.   *)
(* Times are in microseconds.                                              *)
(***************************************************************************)
MaxSlotOps == 3         \* insert, remove, enable and disable calls per run
MaxRuns == 2            \* run_slot and run_all calls per run
MaxSlotTicks == 1       \* advances of the clock per run

NUMA_MAX_STRATEGY_SLOTS == 16
NUMA_STRATEGY_OK == 0
NUMA_STRATEGY_ERR == -1
NUMA_STRATEGY_ENOENT == -2
NUMA_STRATEGY_EINVAL == -3
NUMA_STRATEGY_EEXIST == -4
STRATEGY_PRIORITY_LOW == 1
STRATEGY_PRIORITY_NORMAL == 2
STRATEGY_PRIORITY_HIGH == 3

SlotIds == 0 .. NUMA_MAX_STRATEGY_SLOTS - 1
SlotArgs == {-1, 0, 1, 2, 16}               \* slot_id arguments
UsedSlots == SlotArgs \cap SlotIds
StrategyNames == {"noop", "custom", "missing"}
SlotTickSteps == {400000, 1000000}          \* microseconds between readings
SlotClockStart == 5 * 1000000                 \* time at numa_strategy_init

\* the priority a factory's create function gives its instance; "custom"
\* stands for a factory the host registered, of normal priority
CreatedPriority(name) ==
    CASE name = "noop" -> STRATEGY_PRIORITY_LOW
      [] name = "composite-lru" -> STRATEGY_PRIORITY_HIGH
      [] OTHER -> STRATEGY_PRIORITY_NORMAL

\* noop_strategy_create, composite_lru_create: memset 0, then the fields
NewStrategy(name, id) ==
    [id |-> id, name |-> name, priority |-> CreatedPriority(name), enabled |-> 1,
     execute_interval_us |-> 1000000, last_execute_time |-> 0,
     total_executions |-> 0, total_failures |-> 0]

\* find_factory(name) != NULL
find_factory(name) == name \in factories

\* strategy->vtable->execute(strategy): the built-in strategies return ok,
\* a host strategy may fail
execute(strategy, fail) ==
    IF strategy.name = "custom" /\ fail THEN NUMA_STRATEGY_ERR ELSE NUMA_STRATEGY_OK

\* a scheduler that runs a strategy whatever the time since its last run
IntervalElapsedAlways(strategy, t) == TRUE

\* numa_strategy_run_slot: !(now - last_execute_time < execute_interval_us)
IntervalElapsed(strategy, t) ==
    ~(t - strategy.last_execute_time < strategy.execute_interval_us)

\* a scheduler that counts no failure
FailureIncrementNone(result) == 0

\* numa_strategy_run_slot: if (result != NUMA_STRATEGY_OK) total_failures++
FailureIncrement(result) == IF result # NUMA_STRATEGY_OK THEN 1 ELSE 0

\* numa_strategy_run_slot on an occupied, enabled slot: what it returns, the
\* strategy after it, and whether execute was invoked
RunStrategy(strategy, t, fail) ==
    IF ~IntervalElapsed(strategy, t)
    THEN [result |-> NUMA_STRATEGY_OK, strategy |-> strategy, ran |-> FALSE]
    ELSE [result |-> execute(strategy, fail),
          strategy |-> [strategy EXCEPT
                          !.last_execute_time = t,
                          !.total_executions = @ + 1,
                          !.total_failures =
                              @ + FailureIncrement(execute(strategy, fail))],
          ran |-> TRUE]

Occupied(table, slot_id) == table[slot_id].name # "none"

\* a scheduler that takes every strategy for enabled
EnabledAlways(strategy) == TRUE

\* strategy->enabled
Enabled(strategy) == strategy.enabled # 0

\* numa_strategy_run_slot(slot_id) as a function of the table
RunSlot(table, slot_id, t, fail) ==
    IF slot_id < 0 \/ slot_id >= NUMA_MAX_STRATEGY_SLOTS
    THEN [result |-> NUMA_STRATEGY_EINVAL, table |-> table, ran |-> FALSE]
    ELSE IF ~Occupied(table, slot_id) \/ ~Enabled(table[slot_id])
    THEN [result |-> NUMA_STRATEGY_ENOENT, table |-> table, ran |-> FALSE]
    ELSE LET r == RunStrategy(table[slot_id], t, fail)
         IN  [result |-> r.result,
              table |-> [table EXCEPT ![slot_id] = r.strategy],
              ran |-> r.ran]

\* numa_strategy_run_all: the inner loop looks at every slot
NUMA_SLOTS_PER_SWEEP == NUMA_MAX_STRATEGY_SLOTS

\* the order in which numa_strategy_run_all looks at the slots: low priority
\* first
VisitPriorityAscending(i) == STRATEGY_PRIORITY_LOW + (i \div NUMA_SLOTS_PER_SWEEP)

\* numa_strategy_run_all: priority from HIGH down to LOW in the outer loop
VisitPriority(i) == STRATEGY_PRIORITY_HIGH - (i \div NUMA_SLOTS_PER_SWEEP)

\* numa_strategy_run_all: slot_id from 0 up in the inner loop
VisitSlot(i) == i % NUMA_SLOTS_PER_SWEEP

\* numa_strategy_run_all: the test it makes at its i-th look at a slot.  A
\* look changes the last_execute_time and the counters of the slot it looks
\* at and nothing else, so the test gives at every look what it gives on the
\* table the pass started with
VisitRuns(table, i) ==
    /\ Occupied(table, VisitSlot(i))
    /\ Enabled(table[VisitSlot(i)])
    /\ table[VisitSlot(i)].priority = VisitPriority(i)

\* numa_strategy_run_all: the two loops, 3 priorities times 16 slots; the
\* table after the pass, the executions in the order they were made, and the
\* count of run_slot calls
RunAllLoops(table, t, failing) ==
    LET looks == [j \in 1 .. 3 * NUMA_SLOTS_PER_SWEEP |-> j - 1]
        Ran(i) == /\ VisitRuns(table, i)
                  /\ RunSlot(table, VisitSlot(i), t, VisitSlot(i) \in failing).ran
        ran == SelectSeq(looks, Ran)
    IN  [table |-> [s \in SlotIds |->
                      IF \E i \in 0 .. 3 * NUMA_SLOTS_PER_SWEEP - 1 :
                            VisitSlot(i) = s /\ VisitRuns(table, i)
                      THEN RunSlot(table, s, t, s \in failing).table[s]
                      ELSE table[s]],
         log |-> [j \in 1 .. Len(ran) |->
                    [slot |-> VisitSlot(ran[j]), priority |-> VisitPriority(ran[j]),
                     id |-> table[VisitSlot(ran[j])].id,
                     result |-> RunSlot(table, VisitSlot(ran[j]), t,
                                        VisitSlot(ran[j]) \in failing).result]],
         calls |-> Cardinality({i \in 0 .. 3 * NUMA_SLOTS_PER_SWEEP - 1 :
                                   VisitRuns(table, i)})]

\* ghost: for the slots whose execute the step from table to after invoked,
\* the count of invocations, and of the last one the time, the strategy and
\* the result
NoteExecuted(table, after, t, failing) ==
    [s \in SlotIds |->
        IF Occupied(after, s) /\ Occupied(table, s)
           /\ after[s].total_executions > table[s].total_executions
        THEN [count |-> executed[s].count + 1, at |-> t, id |-> table[s].id,
              result |-> execute(table[s], s \in failing)]
        ELSE executed[s]]

\* a call that changes the slot table counts towards the bound of the run
SlotOp(result) ==
    /\ nslotops < MaxSlotOps
    /\ nslotops' = IF result = NUMA_STRATEGY_OK THEN nslotops + 1 ELSE nslotops
    /\ UNCHANGED <<factories, manager, slot_clock, pass_log, executed, nruns,
                   nslotticks, slot_threads>>

\* numa_strategy_slot_insert(slot_id, strategy_name), the calls of one thread
InsertResult(slot_id, strategy_name) ==
    IF slot_id < 0 \/ slot_id >= NUMA_MAX_STRATEGY_SLOTS THEN NUMA_STRATEGY_EINVAL
    ELSE IF Occupied(slots, slot_id) THEN NUMA_STRATEGY_EEXIST
    ELSE IF ~find_factory(strategy_name) THEN NUMA_STRATEGY_ENOENT
    ELSE NUMA_STRATEGY_OK

numa_strategy_slot_insert(slot_id, strategy_name) ==
    LET result == InsertResult(slot_id, strategy_name)
    IN  /\ SlotOp(result)
        /\ IF result = NUMA_STRATEGY_OK
           THEN /\ slots' = [slots EXCEPT
                               ![slot_id] = NewStrategy(strategy_name, next_strategy)]
                /\ live_strategies' = live_strategies \cup {next_strategy}
                /\ next_strategy' = next_strategy + 1
                /\ disabled_by_call' = disabled_by_call
           ELSE UNCHANGED <<slots, live_strategies, next_strategy, disabled_by_call>>

\* numa_strategy_slot_remove(slot_id)
numa_strategy_slot_remove(slot_id) ==
    LET result ==
          IF slot_id < 0 \/ slot_id >= NUMA_MAX_STRATEGY_SLOTS
          THEN NUMA_STRATEGY_EINVAL
          ELSE IF ~Occupied(slots, slot_id) THEN NUMA_STRATEGY_ENOENT
          ELSE NUMA_STRATEGY_OK
    IN  /\ SlotOp(result)
        /\ IF result = NUMA_STRATEGY_OK
           THEN /\ slots' = [slots EXCEPT ![slot_id] = NoStrategy]
                /\ live_strategies' = live_strategies \ {slots[slot_id].id}
           ELSE UNCHANGED <<slots, live_strategies>>
        /\ UNCHANGED <<next_strategy, disabled_by_call>>

\* numa_strategy_slot_enable(slot_id) and numa_strategy_slot_disable(slot_id)
SetEnabled(slot_id, enabled) ==
    LET result ==
          IF slot_id < 0 \/ slot_id >= NUMA_MAX_STRATEGY_SLOTS
          THEN NUMA_STRATEGY_EINVAL
          ELSE IF ~Occupied(slots, slot_id) THEN NUMA_STRATEGY_ENOENT
          ELSE NUMA_STRATEGY_OK
    IN  /\ SlotOp(result)
        /\ IF result = NUMA_STRATEGY_OK
           THEN /\ slots' = [slots EXCEPT ![slot_id].enabled = enabled]
                /\ disabled_by_call' =
                      IF enabled = 0
                      THEN disabled_by_call \cup {<<slot_id, slots[slot_id].id>>}
                      ELSE {d \in disabled_by_call : d[1] # slot_id}
           ELSE UNCHANGED <<slots, disabled_by_call>>
        /\ UNCHANGED <<live_strategies, next_strategy>>

numa_strategy_slot_enable(slot_id) == SetEnabled(slot_id, 1)

numa_strategy_slot_disable(slot_id) == SetEnabled(slot_id, 0)

\* numa_strategy_run_slot(slot_id)
numa_strategy_run_slot(slot_id, fail) ==
    LET r == RunSlot(slots, slot_id, slot_clock, fail)
    IN  /\ nruns < MaxRuns
        /\ nruns' = nruns + 1
        /\ slots' = r.table
        /\ executed' = NoteExecuted(slots, r.table, slot_clock,
                                     IF fail THEN {slot_id} ELSE {})
        /\ UNCHANGED <<factories, manager, live_strategies, next_strategy,
                       slot_clock, pass_log, disabled_by_call, nslotops,
                       nslotticks, slot_threads>>

\* numa_strategy_run_all()
numa_strategy_run_all(failing) ==
    LET st == RunAllLoops(slots, slot_clock, failing)
    IN  /\ nruns < MaxRuns
        /\ nruns' = nruns + 1
        /\ manager.initialized = 1
        /\ manager' = [manager EXCEPT
                          !.total_runs = @ + 1,
                          !.total_strategy_executions = @ + st.calls]
        /\ slots' = st.table
        /\ pass_log' = st.log
        /\ executed' = NoteExecuted(slots, st.table, slot_clock, failing)
        /\ UNCHANGED <<factories, live_strategies, next_strategy, slot_clock,
                       disabled_by_call, nslotops, nslotticks, slot_threads>>

\* time passes
SlotTick(step) ==
    /\ nslotticks < MaxSlotTicks
    /\ nslotticks' = nslotticks + 1
    /\ slot_clock' = slot_clock + step
    /\ UNCHANGED <<slots, factories, manager, live_strategies, next_strategy,
                   pass_log, executed, disabled_by_call, nslotops, nruns,
                   slot_threads>>

\* numa_strategy_init, and the host has registered the factory "custom"
InitSlots ==
    /\ AllocQuiet /\ MigQuiet /\ LruQuiet /\ MoreQuiet
    /\ slots = [s \in SlotIds |->
                   CASE s = 0 -> NewStrategy("noop", 1)
                     [] s = 1 -> NewStrategy("composite-lru", 2)
                     [] OTHER -> NoStrategy]
    /\ factories = {"noop", "composite-lru", "custom"}
    /\ manager = [initialized |-> 1, total_runs |-> 0, total_strategy_executions |-> 0]
    /\ live_strategies = {1, 2} /\ next_strategy = 3
    /\ slot_clock = SlotClockStart
    /\ pass_log = <<>>
    /\ executed = [s \in SlotIds |-> [count |-> 0, at |-> -1, id |-> 0, result |-> 0]]
    /\ disabled_by_call = {}
    /\ nslotops = 0 /\ nruns = 0 /\ nslotticks = 0
    /\ slot_threads = [t \in Workers |-> Idle]

NextSlots ==
    \/ \E slot_id \in SlotArgs, name \in StrategyNames :
          numa_strategy_slot_insert(slot_id, name)
          /\ UNCHANGED <<allocVars, migVars, lruVars, moreVars>>
    \/ \E slot_id \in SlotArgs :
          numa_strategy_slot_remove(slot_id) /\ UNCHANGED <<allocVars, migVars, lruVars, moreVars>>
    \/ \E slot_id \in SlotArgs :
          numa_strategy_slot_enable(slot_id) /\ UNCHANGED <<allocVars, migVars, lruVars, moreVars>>
    \/ \E slot_id \in SlotArgs :
          numa_strategy_slot_disable(slot_id) /\ UNCHANGED <<allocVars, migVars, lruVars, moreVars>>
    \/ \E slot_id \in SlotArgs, fail \in BOOLEAN :
          numa_strategy_run_slot(slot_id, fail) /\ UNCHANGED <<allocVars, migVars, lruVars, moreVars>>
    \/ \E failing \in {{}, UsedSlots} :
          numa_strategy_run_all(failing) /\ UNCHANGED <<allocVars, migVars, lruVars, moreVars>>
    \/ \E step \in SlotTickSteps : SlotTick(step) /\ UNCHANGED <<allocVars, migVars, lruVars, moreVars>>

SpecSlots == InitSlots /\ [][NextSlots]_vars

\* ---------------------------------------------------------------------------
\* numa_strategy_slot_insert called from two threads.  The function takes the
\* lock three times: to test the slot, inside numa_strategy_create, and to
\* store the new strategy; between them any other thread may run.
\* ---------------------------------------------------------------------------

\* numa_strategy_slot_insert up to its first unlock: the argument test and
\* the test of slots[slot_id] under the lock
InsertBegin(t, slot_id, strategy_name) ==
    /\ slot_threads[t] = Idle
    /\ nslotops < MaxSlotOps
    /\ IF slot_id < 0 \/ slot_id >= NUMA_MAX_STRATEGY_SLOTS \/ Occupied(slots, slot_id)
       THEN UNCHANGED <<slot_threads, nslotops>>
       ELSE /\ slot_threads' = [slot_threads EXCEPT
                                  ![t] = [at |-> "create", slot |-> slot_id,
                                          name |-> strategy_name, id |-> 0]]
            /\ nslotops' = nslotops + 1
    /\ UNCHANGED <<slots, factories, manager, live_strategies, next_strategy,
                   slot_clock, pass_log, executed, disabled_by_call, nruns,
                   nslotticks>>

\* numa_strategy_create(strategy_name) and the return of not-found
InsertCreate(t) ==
    /\ slot_threads[t].at = "create"
    /\ IF ~find_factory(slot_threads[t].name)
       THEN /\ slot_threads' = [slot_threads EXCEPT ![t] = Idle]
            /\ UNCHANGED <<live_strategies, next_strategy>>
       ELSE /\ slot_threads' = [slot_threads EXCEPT
                                  ![t].at = "store", ![t].id = next_strategy]
            /\ live_strategies' = live_strategies \cup {next_strategy}
            /\ next_strategy' = next_strategy + 1
    /\ UNCHANGED <<slots, factories, manager, slot_clock, pass_log, executed,
                   disabled_by_call, nslotops, nruns, nslotticks>>

\* the second locked region: slots[slot_id] = strategy, and the return of ok
InsertStore(t) ==
    /\ slot_threads[t].at = "store"
    /\ slots' = [slots EXCEPT
                   ![slot_threads[t].slot] =
                       NewStrategy(slot_threads[t].name, slot_threads[t].id)]
    /\ slot_threads' = [slot_threads EXCEPT ![t] = Idle]
    /\ UNCHANGED <<factories, manager, live_strategies, next_strategy,
                   slot_clock, pass_log, executed, disabled_by_call, nslotops,
                   nruns, nslotticks>>

InitSlotsConc == InitSlots

NextSlotsConc ==
    \/ \E t \in Workers, slot_id \in SlotArgs, name \in StrategyNames :
          InsertBegin(t, slot_id, name) /\ UNCHANGED <<allocVars, migVars, lruVars, moreVars>>
    \/ \E t \in Workers : InsertCreate(t) /\ UNCHANGED <<allocVars, migVars, lruVars, moreVars>>
    \/ \E t \in Workers : InsertStore(t) /\ UNCHANGED <<allocVars, migVars, lruVars, moreVars>>
    \/ \E slot_id \in SlotArgs :
          numa_strategy_slot_remove(slot_id) /\ UNCHANGED <<allocVars, migVars, lruVars, moreVars>>

SpecSlotsConc == InitSlotsConc /\ [][NextSlotsConc]_vars

\* C12: of two insert calls on one slot at most one returns ok, and the
\* strategy the successful call installed stays the occupant of the slot: it
\* is not overwritten, and no created strategy is left outside the table
C12_InsertNeverOverwrites ==
    [][\A t \in Workers :
          InsertStore(t) => ~Occupied(slots, slot_threads[t].slot)]_vars

\* C13: within one run_all pass the executed slots of high priority come
\* before those of normal priority, which come before those of low priority;
\* within one priority they come in ascending slot id; and no slot is
\* executed twice in the pass
C13_PassOrder ==
    \A i \in DOMAIN pass_log : \A j \in DOMAIN pass_log :
        i < j => \/ pass_log[i].priority > pass_log[j].priority
                 \/ /\ pass_log[i].priority = pass_log[j].priority
                    /\ pass_log[i].slot < pass_log[j].slot

\* a pass that executed a high, a normal and a low priority slot, the low one
\* in the lowest slot
C13_Witness ==
    /\ Len(pass_log) = 3
    /\ pass_log[1].slot = 1 /\ pass_log[1].priority = STRATEGY_PRIORITY_HIGH
    /\ pass_log[2].slot = 2 /\ pass_log[2].priority = STRATEGY_PRIORITY_NORMAL
    /\ pass_log[3].slot = 0 /\ pass_log[3].priority = STRATEGY_PRIORITY_LOW

\* the step is a call of numa_strategy_run_slot or numa_strategy_run_all
RunStep == nruns' = nruns + 1

\* the step invokes the execute of the strategy in slot s
Executes(s) == executed'[s].count = executed[s].count + 1

\* C14 (amended): execute is invoked by run_slot or run_all only on an enabled
\* slot whose strategy has last_execute_time at least execute_interval_us
\* back; a call before that invokes nothing and leaves the counters and
\* last_execute_time of the slot as they were; so two executions of one
\* strategy instance are never closer than execute_interval_us
C14_IntervalGate ==
    [][\A s \in UsedSlots :
          /\ Executes(s) =>
                /\ Occupied(slots, s) /\ slots[s].enabled # 0
                /\ slot_clock - slots[s].last_execute_time
                      >= slots[s].execute_interval_us
          /\ (RunStep /\ Occupied(slots, s)
                /\ slot_clock - slots[s].last_execute_time
                      < slots[s].execute_interval_us) =>
                /\ ~Executes(s)
                /\ slots'[s] = slots[s]
          /\ (Executes(s) /\ executed[s].count > 0
                /\ executed[s].id = slots[s].id) =>
                slot_clock - executed[s].at >= slots[s].execute_interval_us]_vars

\* two run_all passes with no other call between them and less than the
\* interval apart: the second one found slot 0 enabled and did not execute it
C14_Witness ==
    /\ nslotops = 0
    /\ manager.total_runs = 2
    /\ executed[0].count = 1
    /\ slots[0].total_executions = 1
    /\ slots[0].last_execute_time = SlotClockStart

\* C14 as stated: two executions of one slot are never closer than
\* execute_interval_us
C14_SlotExecutionsApart ==
    [][\A s \in UsedSlots :
          (Executes(s) /\ executed[s].count > 0) =>
              slot_clock - executed[s].at >= slots[s].execute_interval_us]_vars

\* the step is a call of numa_strategy_run_all
RunAllStep == manager'.total_runs = manager.total_runs + 1

\* slot s holds an enabled strategy whose interval has elapsed
Eligible(s) ==
    /\ Occupied(slots, s) /\ slots[s].enabled # 0
    /\ slot_clock - slots[s].last_execute_time >= slots[s].execute_interval_us

\* C15 (amended): while the strategy that a successful disable(s) found in
\* slot s is still there and enable(s) has not been called, no run_all or
\* run_slot call invokes its execute or changes its execution counters, and a
\* run_all pass still executes the other eligible slots
C15_DisabledNotExecuted ==
    [][\A s \in UsedSlots :
          (RunStep /\ Occupied(slots, s) /\ <<s, slots[s].id>> \in disabled_by_call) =>
              /\ ~Executes(s)
              /\ slots'[s] = slots[s]
              /\ RunAllStep =>
                    \A o \in UsedSlots \ {s} : Eligible(o) => Executes(o)]_vars

\* slot 1 disabled, then a run_all pass: composite-lru not executed, slot 0
\* executed
C15_Witness ==
    /\ nslotops = 1
    /\ disabled_by_call = {<<1, 2>>}
    /\ manager.total_runs = 1
    /\ executed[1].count = 0 /\ slots[1].total_executions = 0
    /\ executed[0].count = 1 /\ slots[0].total_executions = 1

\* C15 as stated: between disable(s) and the next enable(s) no run call
\* invokes slot s's execute
C15_NoExecuteUntilEnable ==
    [][\A s \in UsedSlots :
          (RunStep /\ \E d \in disabled_by_call : d[1] = s) => ~Executes(s)]_vars

\* C16: when a slot's execute returns a result other than ok, the slot's
\* total_failures grows by exactly one and its total_executions by one, the
\* same run_all pass goes on to run every other eligible slot, and
\* total_failures <= total_executions for every slot in every state
C16_FailureCounted ==
    /\ [][\A s \in UsedSlots :
            (Executes(s) /\ executed'[s].result # NUMA_STRATEGY_OK) =>
                /\ slots'[s].total_failures = slots[s].total_failures + 1
                /\ slots'[s].total_executions = slots[s].total_executions + 1
                /\ RunAllStep =>
                      \A o \in UsedSlots \ {s} : Eligible(o) => Executes(o)]_vars
    /\ [](\A s \in UsedSlots :
            Occupied(slots, s) => slots[s].total_failures <= slots[s].total_executions)

\* a pass in which the host strategy of slot 2 failed and the no-op strategy
\* of slot 0 ran after it
C16_Witness ==
    /\ Len(pass_log) = 3
    /\ pass_log[2].slot = 2 /\ pass_log[2].result = NUMA_STRATEGY_ERR
    /\ pass_log[3].slot = 0 /\ pass_log[3].result = NUMA_STRATEGY_OK
    /\ Occupied(slots, 2) /\ slots[2].total_failures = 1
    /\ slots[2].total_executions = 1

\* C17: in every state after numa_strategy_init and any insert and remove
\* calls, slot 0 holds no strategy other than the no-op strategy and slot 1
\* holds no strategy other than composite-LRU
C17_ReservedSlots ==
    /\ slots[0].name \in {"none", "noop"}
    /\ slots[1].name \in {"none", "composite-lru"}

\* ---------------------------------------------------------------------------
\* Configuration of the composite-LRU strategy through its slot
\* ---------------------------------------------------------------------------

\* the keys with an integer field behind them, and one no strategy knows
ConfigKeys == {"decay_threshold", "stability_count", "migrate_threshold", "no_such_key"}
ConfigValues == {0, 7, 255, 256, 300}       \* atoi(value)
ConfigSlots == {-1, 0, 1, 2}

\* composite_lru_set_config: the value it returns
SetConfigResult(key) ==
    IF key \in {"decay_threshold", "stability_count", "migrate_threshold"}
    THEN NUMA_STRATEGY_OK ELSE NUMA_STRATEGY_EINVAL

\* numa_strategy_slot_configure: the value it returns; noop_strategy_set_config
\* refuses every key
ConfigureResult(slot_id, key) ==
    IF slot_id < 0 \/ slot_id >= NUMA_MAX_STRATEGY_SLOTS THEN NUMA_STRATEGY_EINVAL
    ELSE IF ~Occupied(slots, slot_id) THEN NUMA_STRATEGY_ENOENT
    ELSE IF slots[slot_id].name = "composite-lru" THEN SetConfigResult(key)
    ELSE NUMA_STRATEGY_EINVAL

\* composite_lru_get_config(strategy, key, buf, buf_len): the number printed
\* into buf with "%u"
composite_lru_get_config(key) ==
    CASE key = "decay_threshold" -> decay_threshold \div 1000000
      [] key = "stability_count" -> stability_count
      [] key = "migrate_threshold" -> migrate_hotness_threshold

\* numa_strategy_slot_configure(slot_id, key, value): set_config of the
\* strategy in the slot, under the lock.  ConfigValues stay below 4294, where
\* (uint32_t)atoi(value) * 1000000 fits in 32 bits
numa_strategy_slot_configure(slot_id, key, value) ==
    /\ IF ConfigureResult(slot_id, key) = NUMA_STRATEGY_OK
       THEN /\ decay_threshold' = IF key = "decay_threshold"
                                  THEN value * 1000000 ELSE decay_threshold
            /\ stability_count' = IF key = "stability_count" THEN U8(value)
                                  ELSE stability_count
            /\ migrate_hotness_threshold' =
                  IF key = "migrate_threshold" THEN U8(value)
                  ELSE migrate_hotness_threshold
       ELSE UNCHANGED <<decay_threshold, stability_count, migrate_hotness_threshold>>
    /\ UNCHANGED <<key_heat_map, heat_updates, decay_operations, last_decay_time,
                   now, cold_passes, nticks, nconfigs, wpc, tpc, ncalls>>
    /\ UNCHANGED lruPending

\* numa_strategy_init: composite-lru is in slot 1 with its defaults
InitConfig == InitSlots

NextConfig ==
    \E slot_id \in ConfigSlots, key \in ConfigKeys, value \in ConfigValues :
        numa_strategy_slot_configure(slot_id, key, value)
        /\ UNCHANGED <<allocVars, migVars, slotVars, moreVars>>

SpecConfig == InitConfig /\ [][NextConfig]_vars

\* C18: for every composite-LRU configuration key and every non-negative
\* integer v, after a configure(slot, key, v) that returned ok a query of the
\* key reports v
C18_ConfigureQueryRoundTrip ==
    [][\A slot_id \in ConfigSlots, key \in ConfigKeys, v \in ConfigValues :
          (/\ numa_strategy_slot_configure(slot_id, key, v)
           /\ ConfigureResult(slot_id, key) = NUMA_STRATEGY_OK)
              => composite_lru_get_config(key)' = v]_vars

\* ---------------------------------------------------------------------------
\* The used-memory counter of the allocator (SpecAlloc)
\* ---------------------------------------------------------------------------

RECURSIVE LiveBytes(_)
\* the sum of size + PREFIX_SIZE over a set of blocks
LiveBytes(blocks) ==
    IF blocks = {} THEN 0
    ELSE LET b == CHOOSE x \in blocks : TRUE
         IN  b.size + PREFIX_SIZE + LiveBytes(blocks \ {b})

\* C19: after any sequence of alloc, realloc and free the used-memory counter
\* equals the sum of size + 16 over the live pointers, so an alloc followed by
\* the free of its pointer returns the counter to its value before the alloc
C19_UsedMemoryIsLiveSum == used_memory = LiveBytes(live)

\* an allocation was served and its pointer freed again: nothing is live, the
\* counter is back at 0 and the block is on a free list
C19_Witness ==
    /\ nallocs = 1 /\ nfail = 0 /\ ~oom_abort
    /\ live = {}
    /\ used_memory = 0
    /\ \E k \in DOMAIN free_list : \E i \in DOMAIN free_list[k] :
          free_list[k][i] # AgedFree

\* ---------------------------------------------------------------------------
\* The path that serves an allocation and the origin tag of its prefix
\* ---------------------------------------------------------------------------

\* the block lies in the memory of a chunk of some size-class pool
InChunk(b) ==
    \E k \in DOMAIN chunks : \E i \in DOMAIN chunks[k] :
        /\ chunks[k][i].memory <= RawOf(b)
        /\ EndOf(b) <= chunks[k][i].memory + chunks[k][i].size

\* C20: the origin tag written in the prefix of a block names the path that
\* served the allocation: from_pool is 1 exactly for the blocks that lie in
\* pool memory, so that free releases each block through the path it came by
C20_TagNamesServingPath ==
    \A b \in live :
        RawOf(b) \in DOMAIN prefix =>
            (prefix[RawOf(b)].from_pool = 1 <=> InChunk(b))

\* ---------------------------------------------------------------------------
\* The node of a reallocated block (SpecAlloc)
\* ---------------------------------------------------------------------------

\* the nodes of the OS regions that hold block b
NodesHolding(regions, b) ==
    {r.node : r \in {x \in regions :
                        x.base <= RawOf(b) /\ EndOf(b) <= x.base + x.len}}

\* C21: realloc(p, n) with p non-null and n > 0 places the new region on the
\* node on which p's region was allocated
C21_ReallocKeepsNode ==
    [][\A b \in live :
          (b \notin live' /\ nallocs' = nallocs + 1) =>
              \A nb \in live' \ live :
                  NodesHolding(os', nb) = NodesHolding(os, b)]_vars

(***************************************************************************)
(* The slab allocator of numa_pool.c: numa_slab_alloc and numa_slab_free   *)
(* on the slabs of one size class of node 0.  The bitmap and free_count    *)
(* are updated with single atomic instructions outside the class lock; the *)
(* lists and list_type are written under the lock.  A step of a thread is  *)
(* one atomic instruction or one stretch of code under the lock that no    *)
(* lock-free instruction of another thread can tell apart from one step.   *)
(***************************************************************************)
MaxSlabCalls == 8       \* numa_slab_alloc and numa_slab_free calls per run

SLAB_SIZE == 4096
SLAB_MAX_OBJECT_SIZE == 512
SLAB_EMPTY_CACHE_MAX == 2
SLAB_LIST_PARTIAL == 0
SLAB_LIST_FULL == 1
SLAB_LIST_EMPTY == 2

\* sizeof(numa_slab_header_t) on LP64: two uint32_t and two pointers
SLAB_HEADER_SIZE == 4 + 4 + 8 + 8
SLAB_USABLE_SIZE == SLAB_SIZE - SLAB_HEADER_SIZE

\* the classes numa_slab_init sets up: numa_pool_size_classes[j] <= 512
SlabClasses == {j \in ClassIds : numa_pool_size_classes[j + 1] <= SLAB_MAX_OBJECT_SIZE}

\* class->obj_size = obj_size + 16
SlabObjSize(class_idx) == numa_pool_size_classes[class_idx + 1] + 16

\* slab->objects_per_slab = SLAB_USABLE_SIZE / obj_size
ObjectsPerSlab(class_idx) == SLAB_USABLE_SIZE \div SlabObjSize(class_idx)

\* alloc_new_slab: 2 * SLAB_SIZE bytes from the OS (page aligned), the slab
\* at the first SLAB_SIZE boundary in them
SlabMemory(id) ==
    LET raw_addr == BaseAddr + (id - 1) * 2 * SLAB_SIZE
    IN  ((raw_addr + SLAB_SIZE - 1) \div SLAB_SIZE) * SLAB_SIZE

\* alloc_new_slab(node, obj_size, class_idx)
alloc_new_slab(id, class_idx) ==
    [memory |-> SlabMemory(id), bitmap |-> {},
     free_count |-> ObjectsPerSlab(class_idx),
     objects_per_slab |-> ObjectsPerSlab(class_idx),
     list_type |-> SLAB_LIST_PARTIAL, freed |-> FALSE]

\* bitmap_find_and_set: the lowest clear bit below max_bits, or -1
bitmap_find_and_set(bitmap, max_bits) ==
    IF \E b \in 0 .. max_bits - 1 : b \notin bitmap
    THEN CHOOSE b \in 0 .. max_bits - 1 :
            /\ b \notin bitmap
            /\ \A c \in 0 .. max_bits - 1 : c \notin bitmap => b <= c
    ELSE -1

\* (char *)slab->memory + SLAB_HEADER_SIZE + (free_bit * class->obj_size)
CellAddress(memory, free_bit, class_idx) ==
    memory + SLAB_HEADER_SIZE + free_bit * SlabObjSize(class_idx)

\* slab_list_remove that leaves the list as it was
slab_list_remove_none(list, slab) == list

\* slab_list_remove(&list, slab)
slab_list_remove(list, slab) == SelectSeq(list, LAMBDA x : x # slab)

\* slab_list_add_head(&list, slab)
slab_list_add_head(list, slab) == <<slab>> \o list

\* slab->next: the slab after it in the list that holds it, 0 (NULL) at the
\* end of a list and after slab_list_remove
SlabNext(slab) ==
    LET After(list) ==
            IF \E i \in 1 .. Len(list) - 1 : list[i] = slab
            THEN list[(CHOOSE i \in 1 .. Len(list) - 1 : list[i] = slab) + 1]
            ELSE 0
    IN  After(partial_slabs \o <<0>> \o full_slabs \o <<0>> \o empty_slabs)

\* the thread's call returns the cell: the host holds it
HandOut(t, slab, bit) ==
    /\ held' = held \cup {[slab |-> slab, bit |-> bit,
                           ptr |-> CellAddress(slab_tab[slab].memory, bit, slab_class)]}
    /\ slab_pc' = [slab_pc EXCEPT ![t] = SlabIdle]

SlabListVars == <<partial_slabs, full_slabs, empty_slabs, empty_count, slabs_count>>

\* numa_slab_alloc(size, node, &total_size) begins: the lock-free load of
\* class->partial_slabs
SlabAllocBegin(t) ==
    /\ ~slab_crashed /\ slab_pc[t] = SlabIdle
    /\ nslabcalls < MaxSlabCalls
    /\ nslabcalls' = nslabcalls + 1
    /\ slab_pc' = [slab_pc EXCEPT ![t] =
          IF partial_slabs # <<>>
          THEN [at |-> "fast", slab |-> Head(partial_slabs), bit |-> 0, old |-> 0]
          ELSE [at |-> "slow", slab |-> 0, bit |-> 0, old |-> 0]]
    /\ UNCHANGED <<slab_class, slab_tab, SlabListVars, class_lock, held, slab_crashed>>

\* fast path: bitmap_find_and_set on the slab, or the load of slab->next
SlabFastClaim(t) ==
    /\ ~slab_crashed /\ slab_pc[t].at = "fast"
    /\ LET s == slab_pc[t].slab
           free_bit == bitmap_find_and_set(slab_tab[s].bitmap,
                                           slab_tab[s].objects_per_slab)
       IN  IF free_bit >= 0
           THEN /\ slab_tab' = [slab_tab EXCEPT ![s].bitmap = @ \cup {free_bit}]
                /\ slab_pc' = [slab_pc EXCEPT ![t].at = "fast_dec",
                                              ![t].bit = free_bit]
           ELSE /\ slab_pc' = [slab_pc EXCEPT
                                 ![t].at = IF SlabNext(s) = 0 THEN "slow" ELSE "fast",
                                 ![t].slab = SlabNext(s)]
                /\ UNCHANGED slab_tab
    /\ UNCHANGED <<slab_class, SlabListVars, class_lock, held, slab_crashed, nslabcalls>>

\* uint16_t arithmetic: x - 1
U16Sub(x) == (x + 65535) % 65536

\* fast path: __atomic_sub_fetch(&slab->free_count, 1), then the return
\* unless the slab became full
SlabFastDec(t) ==
    /\ ~slab_crashed /\ slab_pc[t].at = "fast_dec"
    /\ LET s == slab_pc[t].slab
           new_count == U16Sub(slab_tab[s].free_count)
       IN  /\ slab_tab' = [slab_tab EXCEPT ![s].free_count = new_count]
           /\ IF new_count = 0
              THEN /\ slab_pc' = [slab_pc EXCEPT ![t].at = "full_lock"]
                   /\ UNCHANGED held
              ELSE HandOut(t, s, slab_pc[t].bit)
    /\ UNCHANGED <<slab_class, SlabListVars, class_lock, slab_crashed, nslabcalls>>

\* fast path: under the lock, the move of a full slab to the full list
SlabFullMove(t) ==
    /\ ~slab_crashed /\ slab_pc[t].at = "full_lock"
    /\ class_lock = 0
    /\ LET s == slab_pc[t].slab
       IN  /\ IF slab_tab[s].free_count = 0
                 /\ slab_tab[s].list_type = SLAB_LIST_PARTIAL
              THEN /\ partial_slabs' = slab_list_remove(partial_slabs, s)
                   /\ full_slabs' = slab_list_add_head(full_slabs, s)
                   /\ slab_tab' = [slab_tab EXCEPT ![s].list_type = SLAB_LIST_FULL]
              ELSE UNCHANGED <<partial_slabs, full_slabs, slab_tab>>
           /\ HandOut(t, s, slab_pc[t].bit)
    /\ UNCHANGED <<slab_class, empty_slabs, empty_count, slabs_count, class_lock,
                   slab_crashed, nslabcalls>>

\* slow path, from pthread_mutex_lock: the second look at partial_slabs,
\* then a slab from the empty cache or from alloc_new_slab, put at the head
\* of the partial list
SlabSlowEnter(t, oom) ==
    /\ ~slab_crashed /\ slab_pc[t].at = "slow"
    /\ class_lock = 0
    /\ LET head == IF partial_slabs # <<>> THEN Head(partial_slabs) ELSE 0
           free_bit == IF head = 0 THEN -1
                       ELSE bitmap_find_and_set(slab_tab[head].bitmap,
                                                slab_tab[head].objects_per_slab)
           new_id == Len(slab_tab) + 1
       IN  IF free_bit >= 0 THEN
               /\ slab_tab' = [slab_tab EXCEPT ![head].bitmap = @ \cup {free_bit}]
               /\ slab_pc' = [slab_pc EXCEPT ![t] =
                     [at |-> "slow_dec", slab |-> head, bit |-> free_bit, old |-> 0]]
               /\ class_lock' = t
               /\ UNCHANGED SlabListVars
           ELSE IF empty_slabs # <<>> THEN
               /\ empty_slabs' = slab_list_remove(empty_slabs, Head(empty_slabs))
               /\ empty_count' = empty_count - 1
               /\ partial_slabs' = slab_list_add_head(partial_slabs, Head(empty_slabs))
               /\ slab_tab' = [slab_tab EXCEPT
                                 ![Head(empty_slabs)].list_type = SLAB_LIST_PARTIAL]
               /\ slab_pc' = [slab_pc EXCEPT ![t] =
                     [at |-> "slow_claim", slab |-> Head(empty_slabs),
                      bit |-> 0, old |-> 0]]
               /\ class_lock' = t
               /\ UNCHANGED <<full_slabs, slabs_count>>
           ELSE IF oom THEN
               /\ slab_pc' = [slab_pc EXCEPT ![t] = SlabIdle]
               /\ UNCHANGED <<slab_tab, SlabListVars, class_lock>>
           ELSE
               /\ slab_tab' = Append(slab_tab, alloc_new_slab(new_id, slab_class))
               /\ slabs_count' = slabs_count + 1
               /\ partial_slabs' = slab_list_add_head(partial_slabs, new_id)
               /\ slab_pc' = [slab_pc EXCEPT ![t] =
                     [at |-> "slow_claim", slab |-> new_id, bit |-> 0, old |-> 0]]
               /\ class_lock' = t
               /\ UNCHANGED <<full_slabs, empty_slabs, empty_count>>
    /\ UNCHANGED <<slab_class, held, slab_crashed, nslabcalls>>

\* slow path: bitmap_find_and_set on the slab just put on the partial list;
\* its result is not tested
SlabSlowClaim(t) ==
    /\ ~slab_crashed /\ slab_pc[t].at = "slow_claim"
    /\ LET s == slab_pc[t].slab
           free_bit == bitmap_find_and_set(slab_tab[s].bitmap,
                                           slab_tab[s].objects_per_slab)
       IN  /\ slab_tab' = IF free_bit >= 0
                          THEN [slab_tab EXCEPT ![s].bitmap = @ \cup {free_bit}]
                          ELSE slab_tab
           /\ slab_pc' = [slab_pc EXCEPT ![t].at = "slow_dec", ![t].bit = free_bit]
    /\ UNCHANGED <<slab_class, SlabListVars, class_lock, held, slab_crashed, nslabcalls>>

\* slow path: __atomic_sub_fetch(&slab->free_count, 1), unlock, return
SlabSlowDec(t) ==
    /\ ~slab_crashed /\ slab_pc[t].at = "slow_dec"
    /\ LET s == slab_pc[t].slab
       IN  /\ slab_tab' = [slab_tab EXCEPT ![s].free_count = U16Sub(@)]
           /\ HandOut(t, s, slab_pc[t].bit)
    /\ class_lock' = 0
    /\ UNCHANGED <<slab_class, SlabListVars, slab_crashed, nslabcalls>>

\* uint16_t arithmetic: x + 1
U16Add(x) == (x + 1) % 65536

\* the slab whose header lies at ptr & ~(SLAB_SIZE - 1), 0 when that page
\* holds no slab header
SlabOfPtr(ptr) ==
    LET slab_base == (ptr \div SLAB_SIZE) * SLAB_SIZE
    IN  IF \E s \in 1 .. Len(slab_tab) : slab_tab[s].memory = slab_base
        THEN CHOOSE s \in 1 .. Len(slab_tab) : slab_tab[s].memory = slab_base
        ELSE 0

\* numa_slab_free(ptr, total_size, node) of a cell the host holds, up to
\* bitmap_clear(slab->bitmap, obj_index)
SlabFreeBegin(t, c) ==
    /\ ~slab_crashed /\ slab_pc[t] = SlabIdle
    /\ nslabcalls < MaxSlabCalls
    /\ c \in held
    /\ nslabcalls' = nslabcalls + 1
    /\ held' = held \ {c}
    /\ LET s == SlabOfPtr(c.ptr)
           obj_index == IF s = 0 THEN -1
                        ELSE (c.ptr - slab_tab[s].memory - SLAB_HEADER_SIZE)
                                \div SlabObjSize(slab_class)
       IN  IF s = 0 \/ obj_index < 0 \/ obj_index >= slab_tab[s].objects_per_slab
           THEN UNCHANGED <<slab_tab, slab_pc>>
           ELSE /\ ~slab_tab[s].freed
                /\ slab_tab' = [slab_tab EXCEPT ![s].bitmap = @ \ {obj_index}]
                /\ slab_pc' = [slab_pc EXCEPT ![t] =
                      [at |-> "free_inc", slab |-> s, bit |-> obj_index, old |-> 0]]
    /\ UNCHANGED <<slab_class, SlabListVars, class_lock, slab_crashed>>

\* __atomic_fetch_add(&slab->free_count, 1), then the return unless the slab
\* was full or became empty
SlabFreeInc(t) ==
    /\ ~slab_crashed /\ slab_pc[t].at = "free_inc"
    /\ LET s == slab_pc[t].slab
           old_count == slab_tab[s].free_count
           new_count == U16Add(old_count)
           was_full == old_count = 0
           is_empty == new_count = slab_tab[s].objects_per_slab
       IN  /\ slab_tab' = [slab_tab EXCEPT ![s].free_count = new_count]
           /\ slab_pc' = [slab_pc EXCEPT ![t] =
                 IF was_full \/ is_empty
                 THEN [at |-> "free_lock", slab |-> s, bit |-> 0, old |-> old_count]
                 ELSE SlabIdle]
    /\ UNCHANGED <<slab_class, SlabListVars, class_lock, held, slab_crashed, nslabcalls>>

\* under the lock: a slab that was full goes back to the partial list, an
\* empty one to the empty cache or to free_slab
SlabFreeMove(t) ==
    /\ ~slab_crashed /\ slab_pc[t].at = "free_lock"
    /\ class_lock = 0
    /\ LET s == slab_pc[t].slab
           was_full == slab_pc[t].old = 0
           current_list == slab_tab[s].list_type
           current_count == slab_tab[s].free_count
       IN  IF was_full /\ current_list = SLAB_LIST_FULL THEN
               /\ full_slabs' = slab_list_remove(full_slabs, s)
               /\ partial_slabs' = slab_list_add_head(partial_slabs, s)
               /\ slab_tab' = [slab_tab EXCEPT ![s].list_type = SLAB_LIST_PARTIAL]
               /\ UNCHANGED <<empty_slabs, empty_count, slabs_count>>
           ELSE IF current_count = slab_tab[s].objects_per_slab
                   /\ current_list = SLAB_LIST_PARTIAL THEN
               /\ partial_slabs' = slab_list_remove(partial_slabs, s)
               /\ IF empty_count < SLAB_EMPTY_CACHE_MAX
                  THEN /\ empty_slabs' = slab_list_add_head(empty_slabs, s)
                       /\ slab_tab' = [slab_tab EXCEPT ![s].list_type = SLAB_LIST_EMPTY]
                       /\ empty_count' = empty_count + 1
                       /\ UNCHANGED slabs_count
                  ELSE /\ slab_tab' = [slab_tab EXCEPT ![s].freed = TRUE]
                       /\ slabs_count' = slabs_count - 1
                       /\ UNCHANGED <<empty_slabs, empty_count>>
               /\ UNCHANGED full_slabs
           ELSE UNCHANGED <<slab_tab, SlabListVars>>
    /\ slab_pc' = [slab_pc EXCEPT ![t] = SlabIdle]
    /\ UNCHANGED <<slab_class, class_lock, held, slab_crashed, nslabcalls>>

\* a thread reads or writes a numa_slab_t that free_slab has released, or the
\* host frees a cell of one: undefined behaviour, here the fault of the process
\* (the steps above are the outcomes in which the released memory still holds
\* what it held)
SlabUseAfterFree(t) ==
    /\ ~slab_crashed
    /\ \/ /\ slab_pc[t].at \in {"fast", "fast_dec", "full_lock", "free_inc", "free_lock"}
          /\ slab_tab[slab_pc[t].slab].freed
       \/ /\ slab_pc[t] = SlabIdle /\ nslabcalls < MaxSlabCalls
          /\ \E c \in held : SlabOfPtr(c.ptr) # 0 /\ slab_tab[SlabOfPtr(c.ptr)].freed
    /\ slab_crashed' = TRUE
    /\ UNCHANGED <<slab_class, slab_tab, SlabListVars, class_lock, slab_pc, held,
                   nslabcalls>>

\* a slab of the class with the cells of `bits` handed out
AgedSlab(id, class_idx, bits, list_type) ==
    [alloc_new_slab(id, class_idx) EXCEPT
        !.bitmap = bits,
        !.free_count = ObjectsPerSlab(class_idx) - Cardinality(bits),
        !.list_type = list_type]

\* the cells of `bits` of slab id, as the host holds them
AgedHeld(id, class_idx, bits) ==
    {[slab |-> id, bit |-> b, ptr |-> CellAddress(SlabMemory(id), b, class_idx)] :
        b \in bits}

\* after numa_slab_init and some calls of one thread: the class has no slab,
\* or one slab with its first k cells handed out, the first and the last of
\* them to the host that frees cells here
InitSlabState(class_idx, k) ==
    /\ slab_class = class_idx
    /\ slab_tab = IF k < 0 THEN <<>>
                  ELSE <<AgedSlab(1, class_idx, 0 .. k - 1,
                                  IF k = ObjectsPerSlab(class_idx)
                                  THEN SLAB_LIST_FULL ELSE SLAB_LIST_PARTIAL)>>
    /\ partial_slabs = IF k >= 0 /\ k < ObjectsPerSlab(class_idx) THEN <<1>> ELSE <<>>
    /\ full_slabs = IF k = ObjectsPerSlab(class_idx) THEN <<1>> ELSE <<>>
    /\ empty_slabs = <<>> /\ empty_count = 0
    /\ slabs_count = IF k < 0 THEN 0 ELSE 1
    /\ class_lock = 0
    /\ slab_pc = [t \in Workers |-> SlabIdle]
    /\ held = IF k < 0 THEN {} ELSE AgedHeld(1, class_idx, {0, k - 1} \cap (0 .. k - 1))
    /\ slab_crashed = FALSE /\ nslabcalls = 0

InitSlab ==
    /\ AllocQuiet /\ MigQuiet /\ LruQuiet /\ SlotQuiet /\ PlaceQuiet /\ RestQuiet
    /\ \E class_idx \in SlabClasses :
          \E k \in -1 .. ObjectsPerSlab(class_idx) : InitSlabState(class_idx, k)

\* one thread calls numa_slab_alloc and numa_slab_free
NextSlab ==
    \/ SlabAllocBegin(1) /\ UNCHANGED <<allocVars, migVars, lruVars, slotVars, placeVars, restVars>>
    \/ SlabFastClaim(1) /\ UNCHANGED <<allocVars, migVars, lruVars, slotVars, placeVars, restVars>>
    \/ SlabFastDec(1) /\ UNCHANGED <<allocVars, migVars, lruVars, slotVars, placeVars, restVars>>
    \/ SlabFullMove(1) /\ UNCHANGED <<allocVars, migVars, lruVars, slotVars, placeVars, restVars>>
    \/ \E oom \in BOOLEAN : SlabSlowEnter(1, oom) /\ UNCHANGED <<allocVars, migVars, lruVars, slotVars, placeVars, restVars>>
    \/ SlabSlowClaim(1) /\ UNCHANGED <<allocVars, migVars, lruVars, slotVars, placeVars, restVars>>
    \/ SlabSlowDec(1) /\ UNCHANGED <<allocVars, migVars, lruVars, slotVars, placeVars, restVars>>
    \/ \E c \in held : SlabFreeBegin(1, c) /\ UNCHANGED <<allocVars, migVars, lruVars, slotVars, placeVars, restVars>>
    \/ SlabFreeInc(1) /\ UNCHANGED <<allocVars, migVars, lruVars, slotVars, placeVars, restVars>>
    \/ SlabFreeMove(1) /\ UNCHANGED <<allocVars, migVars, lruVars, slotVars, placeVars, restVars>>

SpecSlab == InitSlab /\ [][NextSlab]_vars

\* C22: every address the slab path hands out is a multiple of 16, for every
\* size class and every cell index, the slab bases being page aligned
C22_CellsAligned16 == [][\A c \in held' \ held : c.ptr % 16 = 0]_vars

(***************************************************************************)
(* Two threads in numa_slab_alloc and numa_slab_free on the class of the   *)
(* 512-byte objects, whose slabs hold the fewest cells.                    *)
(***************************************************************************)
\* the largest slab class
ConcClass == CHOOSE j \in SlabClasses : \A i \in SlabClasses : i <= j

\* the class has no slab, or a partial slab with its first k cells handed out,
\* the first and the last of them to the host that frees cells here; cached is
\* the number of slabs in the empty cache
InitSlabConcState(k, cached) ==
    /\ slab_class = ConcClass
    /\ slab_tab = (IF k < 0 THEN <<>>
                   ELSE <<AgedSlab(1, ConcClass, 0 .. k - 1, SLAB_LIST_PARTIAL)>>)
                  \o [i \in 1 .. cached |->
                        AgedSlab(i + (IF k < 0 THEN 0 ELSE 1), ConcClass, {},
                                 SLAB_LIST_EMPTY)]
    /\ partial_slabs = IF k < 0 THEN <<>> ELSE <<1>>
    /\ full_slabs = <<>>
    /\ empty_slabs = [i \in 1 .. cached |-> i + (IF k < 0 THEN 0 ELSE 1)]
    /\ empty_count = cached
    /\ slabs_count = cached + (IF k < 0 THEN 0 ELSE 1)
    /\ class_lock = 0
    /\ slab_pc = [t \in Workers |-> SlabIdle]
    /\ held = IF k < 0 THEN {} ELSE AgedHeld(1, ConcClass, {0, k - 1})
    /\ slab_crashed = FALSE
    /\ nslabcalls = 0

InitSlabConc ==
    /\ AllocQuiet /\ MigQuiet /\ LruQuiet /\ SlotQuiet /\ PlaceQuiet /\ RestQuiet
    /\ \E k \in {-1, 1, ObjectsPerSlab(ConcClass) - 1},
          cached \in {0, SLAB_EMPTY_CACHE_MAX} : InitSlabConcState(k, cached)

NextSlabConc ==
    \/ \E t \in Workers :
          SlabAllocBegin(t) /\ UNCHANGED <<allocVars, migVars, lruVars, slotVars, placeVars, restVars>>
    \/ \E t \in Workers :
          SlabFastClaim(t) /\ UNCHANGED <<allocVars, migVars, lruVars, slotVars, placeVars, restVars>>
    \/ \E t \in Workers :
          SlabFastDec(t) /\ UNCHANGED <<allocVars, migVars, lruVars, slotVars, placeVars, restVars>>
    \/ \E t \in Workers :
          SlabFullMove(t) /\ UNCHANGED <<allocVars, migVars, lruVars, slotVars, placeVars, restVars>>
    \/ \E t \in Workers, oom \in BOOLEAN :
          SlabSlowEnter(t, oom) /\ UNCHANGED <<allocVars, migVars, lruVars, slotVars, placeVars, restVars>>
    \/ \E t \in Workers :
          SlabSlowClaim(t) /\ UNCHANGED <<allocVars, migVars, lruVars, slotVars, placeVars, restVars>>
    \/ \E t \in Workers :
          SlabSlowDec(t) /\ UNCHANGED <<allocVars, migVars, lruVars, slotVars, placeVars, restVars>>
    \/ \E t \in Workers, c \in held :
          SlabFreeBegin(t, c) /\ UNCHANGED <<allocVars, migVars, lruVars, slotVars, placeVars, restVars>>
    \/ \E t \in Workers :
          SlabFreeInc(t) /\ UNCHANGED <<allocVars, migVars, lruVars, slotVars, placeVars, restVars>>
    \/ \E t \in Workers :
          SlabFreeMove(t) /\ UNCHANGED <<allocVars, migVars, lruVars, slotVars, placeVars, restVars>>
    \/ \E t \in Workers :
          SlabUseAfterFree(t) /\ UNCHANGED <<allocVars, migVars, lruVars, slotVars, placeVars, restVars>>

SpecSlabConc == InitSlabConc /\ [][NextSlabConc]_vars

\* the slabs alloc_new_slab has made and free_slab has not released
LiveSlabs == {s \in 1 .. Len(slab_tab) : ~slab_tab[s].freed}

\* C28: no allocation claims a cell in a slab that is in the empty cache or
\* has been deallocated, and a slab is put in the empty cache or deallocated
\* only while none of its cells is allocated
C28_NoClaimInRetiredSlab ==
    [][\A s \in 1 .. Len(slab_tab) :
          /\ slab_tab'[s].bitmap \ slab_tab[s].bitmap # {} =>
                ~slab_tab[s].freed /\ slab_tab[s].list_type # SLAB_LIST_EMPTY
          /\ \/ slab_tab'[s].freed /\ ~slab_tab[s].freed
             \/ /\ slab_tab'[s].list_type = SLAB_LIST_EMPTY
                /\ slab_tab[s].list_type # SLAB_LIST_EMPTY
             => slab_tab[s].bitmap = {}]_vars

\* the number of zero bits among the objects_per_slab cell bits of a slab
ZeroBits(slab) ==
    Cardinality({b \in 0 .. slab.objects_per_slab - 1 : b \notin slab.bitmap})

\* C29: in every reachable state the number of zero bits among the
\* objects_per_slab cell bits of a slab equals its free_count
C29_ZeroBitsEqualFreeCount ==
    \A s \in LiveSlabs : ZeroBits(slab_tab[s]) = slab_tab[s].free_count

\* the list of the class that list_type names
ListOfType(list_type) ==
    IF list_type = SLAB_LIST_PARTIAL THEN partial_slabs
    ELSE IF list_type = SLAB_LIST_FULL THEN full_slabs
    ELSE empty_slabs

\* the number of links to slab s in a list
Links(list, s) == Cardinality({i \in 1 .. Len(list) : list[i] = s})

\* C30: every slab that has not been deallocated is linked in exactly one of
\* the partial, full and empty lists of its class, once, and its list_type
\* names that list
C30_OneListAndTypeMatches ==
    \A s \in LiveSlabs :
        /\ Links(partial_slabs, s) + Links(full_slabs, s) + Links(empty_slabs, s) = 1
        /\ Links(ListOfType(slab_tab[s].list_type), s) = 1

\* a slab went to the full list, another came out of the empty cache, and a
\* third went into it, all calls having returned
C30_Witness ==
    /\ \A t \in Workers : slab_pc[t] = SlabIdle
    /\ \E s \in LiveSlabs : slab_tab[s].list_type = SLAB_LIST_FULL
    /\ empty_count = SLAB_EMPTY_CACHE_MAX - 1
    /\ nslabcalls > 2

(***************************************************************************)
(* The placement engine of numa_configurable_strategy.c: select_best_node  *)
(* under the six strategies, numa_config_malloc, and the SET subcommand of *)
(* NUMACONFIG (numa_config_command.c).  A call is one step: it runs        *)
(* between pthread_mutex_lock and pthread_mutex_unlock of g_config_mutex,  *)
(* and the command runs on the single command thread.  Utilisations are    *)
(* kept as byte counts, that is in units of 1 / GiB, and the balance       *)
(* threshold in hundredths.                                                *)
(***************************************************************************)
MaxCfgCalls == 3        \* selections and commands per run

INT_MAX == 2147483647
INT_MIN == -INT_MAX - 1
GiB == 1024 * 1024 * 1024

NUMA_STRATEGY_CONFIG_LOCAL_FIRST == 0
NUMA_STRATEGY_CONFIG_INTERLEAVE == 1
NUMA_STRATEGY_CONFIG_ROUND_ROBIN == 2
NUMA_STRATEGY_CONFIG_WEIGHTED == 3
NUMA_STRATEGY_CONFIG_PRESSURE_AWARE == 4
NUMA_STRATEGY_CONFIG_CXL_OPTIMIZED == 5

strategy_names ==
    <<"local_first", "interleaved", "round_robin", "weighted", "pressure_aware",
      "cxl_optimized">>

\* g_runtime_state.config.min_allocation_size: zero from init_runtime_state on,
\* no command sets it
min_allocation_size == 0

\* g_runtime_state.config.num_nodes = numa_max_node() + 1
NumNodes == Cardinality(Nodes)

\* parse_strategy_name(name): the index of the name, local_first for any other
parse_strategy_name(name) ==
    IF \E i \in 1 .. Len(strategy_names) : strategy_names[i] = name
    THEN (CHOOSE i \in 1 .. Len(strategy_names) : strategy_names[i] = name) - 1
    ELSE NUMA_STRATEGY_CONFIG_LOCAL_FIRST

\* the texts that are decimal integers, with their values
Numerals ==
    [text \in {"-5", "-1", "0", "1", "2", "30", "100", "150", "1000", "1001"} |->
        CASE text = "-5" -> -5 [] text = "-1" -> -1 [] text = "0" -> 0
          [] text = "1" -> 1 [] text = "2" -> 2 [] text = "30" -> 30
          [] text = "100" -> 100 [] text = "150" -> 150
          [] text = "1000" -> 1000 [] text = "1001" -> 1001]

\* atof(value), atoi(value): 0 for a text that does not start with a number
atof(value) == IF value \in DOMAIN Numerals THEN Numerals[value] ELSE 0

\* a % n of C for n > 0: the remainder has the sign of a
CRem(a, n) == IF a >= 0 THEN a % n ELSE -((-(a + n)) % n)

\* numa_config_get_node_utilization(node_id), in units of 1 / GiB
numa_config_get_node_utilization(node_id) ==
    IF node_id < 0 \/ node_id >= NumNodes THEN 0
    ELSE bytes_allocated_per_node[node_id + 1]

\* the loop of the pressure-aware case from node i on
RECURSIVE PressureScan(_, _, _)
PressureScan(i, min_utilization, selected_node) ==
    IF i >= NumNodes THEN selected_node
    ELSE LET utilization == numa_config_get_node_utilization(i)
         IN  IF utilization < min_utilization
             THEN PressureScan(i + 1, utilization, i)
             ELSE PressureScan(i + 1, min_utilization, selected_node)

\* the sum of the weights of the nodes from node i on
RECURSIVE TotalWeight(_)
TotalWeight(i) == IF i >= NumNodes THEN 0 ELSE node_weights[i + 1] + TotalWeight(i + 1)

\* the node the switch of select_best_node selects; rnd stands for the value
\* of rand_r: under the weighted strategy every node of positive weight is
\* hit by some value, and no other node is
SelectedNode(t, size, rnd) ==
    CASE strategy_type = NUMA_STRATEGY_CONFIG_LOCAL_FIRST -> 0
      [] strategy_type = NUMA_STRATEGY_CONFIG_INTERLEAVE -> rnd % NumNodes
      [] strategy_type = NUMA_STRATEGY_CONFIG_ROUND_ROBIN -> CRem(rr_index[t], NumNodes)
      [] strategy_type = NUMA_STRATEGY_CONFIG_WEIGHTED ->
            IF TotalWeight(0) > 0 /\ node_weights[rnd + 1] > 0 THEN rnd ELSE 0
      [] strategy_type = NUMA_STRATEGY_CONFIG_PRESSURE_AWARE -> PressureScan(0, GiB, 0)
      [] strategy_type = NUMA_STRATEGY_CONFIG_CXL_OPTIMIZED ->
            IF size < min_allocation_size THEN 0 ELSE IF NumNodes > 1 THEN 1 ELSE 0
      [] OTHER -> 0

\* what the call runs into that the C standard or POSIX leave undefined:
\* rr_index++ at INT_MAX, pthread_mutex_lock of g_config_mutex by the thread
\* that holds it (numa_config_get_node_utilization inside select_best_node),
\* a counter update at a negative index
SelectUndefined(t, node) ==
    \/ strategy_type = NUMA_STRATEGY_CONFIG_ROUND_ROBIN /\ rr_index[t] = INT_MAX
    \/ strategy_type = NUMA_STRATEGY_CONFIG_PRESSURE_AWARE
    \/ node < 0 \/ node >= NumNodes

\* select_best_node(size) by thread t.  Where the call is undefined it either
\* stops the process (the thread waits for its own lock for ever, or traps)
\* or goes on: the lock is taken again, the counter wraps, the stray write
\* lands outside the engine's state.
select_best_node(t, size, rnd, goes_on) ==
    /\ cfg_fault = "none" /\ ncfgcalls < MaxCfgCalls
    /\ ncfgcalls' = ncfgcalls + 1
    /\ LET node == SelectedNode(t, size, rnd)
           inside == node >= 0 /\ node < NumNodes
       IN  IF SelectUndefined(t, node) /\ ~goes_on
           THEN /\ cfg_fault' =
                      IF strategy_type = NUMA_STRATEGY_CONFIG_PRESSURE_AWARE
                      THEN "deadlock" ELSE "trap"
                /\ UNCHANGED <<allocation_counters, bytes_allocated_per_node,
                               rr_index, rr_turn, cfg_selected>>
           ELSE /\ cfg_selected' = [t |-> t, strategy |-> strategy_type,
                                    size |-> size, node |-> node]
                /\ IF strategy_type = NUMA_STRATEGY_CONFIG_ROUND_ROBIN
                   THEN /\ rr_index' = [rr_index EXCEPT ![t] =
                              IF @ = INT_MAX THEN INT_MIN ELSE @ + 1]
                        /\ rr_turn' = [rr_turn EXCEPT ![t] = (@ + 1) % NumNodes]
                   ELSE UNCHANGED <<rr_index, rr_turn>>
                /\ allocation_counters' =
                      IF inside THEN [allocation_counters EXCEPT ![node + 1] = @ + 1]
                      ELSE allocation_counters
                /\ bytes_allocated_per_node' =
                      IF inside THEN [bytes_allocated_per_node EXCEPT ![node + 1] = @ + size]
                      ELSE bytes_allocated_per_node
                /\ UNCHANGED cfg_fault
    /\ UNCHANGED <<strategy_type, node_weights, balance_threshold,
                   enable_cxl_optimization, auto_rebalance, cfg_reply>>

\* the NUMACONFIG SET commands tried: parameter, value, and the weight text of
\* SET weight <node> <weight>
StrategyArgs == {strategy_names[i] : i \in 1 .. Len(strategy_names)} \cup {"bogus"}
ThresholdArgs == {"-5", "30", "100", "150", "abc"}
WeightNodeArgs == {"-1", "0", "1", "2"}
WeightArgs == {"-1", "0", "1000", "1001", "abc"}
SetCommands ==
    [param : {"strategy"}, value : StrategyArgs, weight : {""}]
    \cup [param : {"balance_threshold"}, value : ThresholdArgs, weight : {""}]
    \cup [param : {"weight"}, value : WeightNodeArgs, weight : WeightArgs]
    \cup [param : {"cxl_optimization"}, value : {"on", "off"}, weight : {""}]
    \cup [param : {"verbose"}, value : {"on"}, weight : {""}]

\* getLongFromObjectOrReply succeeds on the text
IsLong(text) == text \in DOMAIN Numerals

\* the reply of NUMACONFIG SET <param> <value> [<weight>]: "OK" or an error
SetReply(cmd) ==
    CASE cmd.param = "strategy" -> "OK"
      [] cmd.param = "cxl_optimization" -> "OK"
      [] cmd.param = "balance_threshold" ->
            IF atof(cmd.value) >= 0 /\ atof(cmd.value) <= 100
            THEN "OK" ELSE "ERR Balance threshold must be between 0 and 100"
      [] cmd.param = "weight" ->
            IF ~IsLong(cmd.value) THEN "ERR Invalid node ID"
            ELSE IF ~IsLong(cmd.weight) THEN "ERR Invalid weight"
            ELSE IF Numerals[cmd.value] < 0 \/ Numerals[cmd.value] >= NumNodes
            THEN "ERR Node ID out of range"
            ELSE IF Numerals[cmd.weight] < 0 \/ Numerals[cmd.weight] > 1000
            THEN "ERR Weight must be between 0 and 1000"
            ELSE "OK"
      [] OTHER -> "ERR Unknown parameter"

\* numaconfigCommand with the subcommand SET
numaconfigCommand(cmd) ==
    /\ cfg_fault = "none" /\ ncfgcalls < MaxCfgCalls
    /\ ncfgcalls' = ncfgcalls + 1
    /\ cfg_reply' = [param |-> cmd.param, value |-> cmd.value, weight |-> cmd.weight,
                     reply |-> SetReply(cmd)]
    /\ strategy_type' =
          IF cmd.param = "strategy" THEN parse_strategy_name(cmd.value)
          ELSE strategy_type
    /\ enable_cxl_optimization' =
          IF cmd.param = "cxl_optimization"
          THEN (IF cmd.value \in {"on", "yes"} \/ atof(cmd.value) # 0 THEN 1 ELSE 0)
          ELSE enable_cxl_optimization
    /\ balance_threshold' =
          IF cmd.param = "balance_threshold" /\ SetReply(cmd) = "OK"
          THEN atof(cmd.value) ELSE balance_threshold
    /\ node_weights' =
          IF cmd.param = "weight" /\ SetReply(cmd) = "OK"
          THEN [node_weights EXCEPT ![Numerals[cmd.value] + 1] = Numerals[cmd.weight]]
          ELSE node_weights
    /\ UNCHANGED <<auto_rebalance, allocation_counters, bytes_allocated_per_node,
                   rr_index, rr_turn, cfg_selected, cfg_fault>>

\* per-node byte counts, per-thread round-robin counts and strategies that
\* earlier calls have left
AgedBytes == {0, GiB, GiB + GiB \div 2}
AgedStrategies ==
    {NUMA_STRATEGY_CONFIG_INTERLEAVE, NUMA_STRATEGY_CONFIG_ROUND_ROBIN,
     NUMA_STRATEGY_CONFIG_PRESSURE_AWARE}
AgedRoundRobin == {0, INT_MAX}

\* after numa_config_strategy_init (init_runtime_state), earlier selections and
\* an earlier SET strategy
InitPlaceState(strategy, bytes, rr) ==
    /\ strategy_type = strategy
    /\ node_weights = [i \in 1 .. NumNodes |-> 100]
    /\ balance_threshold = 30
    /\ enable_cxl_optimization = 0 /\ auto_rebalance = 1
    /\ allocation_counters = [i \in 1 .. NumNodes |-> 0]
    /\ bytes_allocated_per_node = bytes
    /\ rr_index = rr
    /\ rr_turn = [t \in Workers |-> rr[t] % NumNodes]
    /\ cfg_selected = NoSelection /\ cfg_reply = NoCommand
    /\ cfg_fault = "none" /\ ncfgcalls = 0

InitPlace ==
    /\ AllocQuiet /\ MigQuiet /\ LruQuiet /\ SlotQuiet /\ SlabQuiet /\ RestQuiet
    /\ \E strategy \in AgedStrategies, bytes \in [1 .. NumNodes -> AgedBytes],
          r \in AgedRoundRobin :
          InitPlaceState(strategy, bytes, [t \in Workers |-> IF t = 1 THEN r ELSE 0])

SelectSizes == {4096}

NextPlace ==
    \/ \E t \in Workers, size \in SelectSizes, rnd \in Nodes, goes_on \in BOOLEAN :
          /\ select_best_node(t, size, rnd, goes_on)
          /\ UNCHANGED <<allocVars, migVars, lruVars, slotVars, slabVars, restVars>>
    \/ \E cmd \in SetCommands :
          /\ numaconfigCommand(cmd)
          /\ UNCHANGED <<allocVars, migVars, lruVars, slotVars, slabVars, restVars>>

SpecPlace == InitPlace /\ [][NextPlace]_vars

\* C23: under the round-robin strategy with N nodes the k-th selection made
\* by one thread returns k mod N, whatever other threads select
C23_RoundRobinTurn ==
    [][\A t \in Workers :
          rr_turn'[t] # rr_turn[t] => cfg_selected'.node = rr_turn[t]]_vars

\* C24: under the pressure-aware strategy the selected node is one whose
\* utilisation is less than or equal to that of every other node
C24_PressureSelectsLeastUsed ==
    [][(/\ strategy_type = NUMA_STRATEGY_CONFIG_PRESSURE_AWARE
        /\ allocation_counters' # allocation_counters) =>
          \A n \in Nodes :
              numa_config_get_node_utilization(cfg_selected'.node)
                  <= numa_config_get_node_utilization(n)]_vars

\* the command asks for a value the claim calls not acceptable
Unacceptable(cmd) ==
    \/ cmd.param = "strategy"
       /\ cmd.value \notin {strategy_names[i] : i \in 1 .. Len(strategy_names)}
    \/ cmd.param = "balance_threshold" /\ IsLong(cmd.value)
       /\ (Numerals[cmd.value] < 0 \/ Numerals[cmd.value] > 100)
    \/ cmd.param = "weight" /\ IsLong(cmd.value) /\ IsLong(cmd.weight)
       /\ \/ Numerals[cmd.weight] < 0 \/ Numerals[cmd.weight] > 1000
          \/ Numerals[cmd.value] < 0 \/ Numerals[cmd.value] >= NumNodes

\* C26: a SET command whose value is not acceptable replies with an error and
\* leaves the strategy, the weights, the threshold and the flags as they were
C26_RejectedSetChangesNothing ==
    [][(/\ ncfgcalls' # ncfgcalls
        /\ UNCHANGED <<allocation_counters, rr_index, cfg_fault>>
        /\ Unacceptable(cfg_reply')) =>
          /\ cfg_reply'.reply # "OK"
          /\ UNCHANGED <<strategy_type, node_weights, balance_threshold,
                         enable_cxl_optimization, auto_rebalance>>]_vars

\* numa_config_malloc(size) by thread t: select_best_node, then
\* numa_zmalloc_onnode(size, target_node)
numa_config_malloc(t, size, rnd, goes_on, oom) ==
    /\ select_best_node(t, size, rnd, goes_on)
    /\ IF cfg_fault' = "none"
       THEN AllocOnNode(size, cfg_selected'.node, oom)
       ELSE UNCHANGED allocVars

\* the placement engine after numa_config_strategy_init, on the allocator
\* after numa_init
InitPlaceAlloc ==
    /\ InitAllocState
    /\ MigQuiet /\ LruQuiet /\ SlotQuiet /\ SlabQuiet /\ RestQuiet
    /\ \E strategy \in AgedStrategies :
          InitPlaceState(strategy, [i \in 1 .. NumNodes |-> 0], [t \in Workers |-> 0])

NextPlaceAlloc ==
    \/ \E t \in Workers, size \in OnNodeSizes, rnd \in Nodes, goes_on \in BOOLEAN,
          oom \in OomChoices :
          /\ numa_config_malloc(t, size, rnd, goes_on, oom)
          /\ UNCHANGED <<migVars, lruVars, slotVars, slabVars, restVars>>
    \/ \E b \in live, rec_ok \in BOOLEAN :
          /\ Free(b, rec_ok)
          /\ UNCHANGED <<migVars, lruVars, slotVars, slabVars, placeVars, restVars>>
    \/ \E cmd \in SetCommands :
          /\ numaconfigCommand(cmd)
          /\ UNCHANGED <<allocVars, migVars, lruVars, slotVars, slabVars, restVars>>

SpecPlaceAlloc == InitPlaceAlloc /\ [][NextPlaceAlloc]_vars

\* the sum of the bytes_allocated counters of the nodes from node i on
RECURSIVE BytesAllocated(_)
BytesAllocated(i) ==
    IF i >= NumNodes THEN 0 ELSE bytes_allocated_per_node[i + 1] + BytesAllocated(i + 1)

\* C25: the sum over the nodes of the placement engine's bytes_allocated
\* counters equals the allocator's used-memory counter
C25_BytesAllocatedIsUsedMemory == BytesAllocated(0) = used_memory

\* C27: after n record_access calls for one key its access count is n, and
\* heat_updates is the number of record_access calls: the first call for a key
\* leaves a record with access count 1, every later call adds one to it, and
\* every call adds one to heat_updates (numa_record_key_access for
\* key_metadata, composite_lru_record_access for key_heat_map)
C27_AccessCountIsCallCount ==
    [][LET MetaGrowth(k) ==
               IF k \in DOMAIN key_metadata
               THEN key_metadata'[k].access_count - key_metadata[k].access_count
               ELSE key_metadata'[k].access_count
           HeatGrowth(k) ==
               IF k \in DOMAIN key_heat_map
               THEN key_heat_map'[k].access_count - key_heat_map[k].access_count
               ELSE key_heat_map'[k].access_count
       IN  /\ \A k \in DOMAIN key_metadata' : MetaGrowth(k) \in {0, 1}
           /\ \A k \in DOMAIN key_heat_map' : HeatGrowth(k) \in {0, 1}
           /\ heat_updates' - heat_updates =
                  Cardinality({k \in DOMAIN key_heat_map' : HeatGrowth(k) = 1})]_vars

\* no call of numa_slab_alloc or numa_slab_free is under way
SlabAllDone == \A t \in Workers : slab_pc[t] = SlabIdle

\* C31: a numa_slab_alloc that takes the last free cell of a slab moves the
\* slab from the partial list to the full list, on the lock-free path and on
\* the slow path: when every call on the class has returned, no slab with
\* free_count 0 is on the partial list
C31_FullSlabLeavesPartial ==
    SlabAllDone =>
        \A i \in 1 .. Len(partial_slabs) :
            slab_tab[partial_slabs[i]].free_count # 0

(***************************************************************************)
(* Two threads that free the cells of a slab of the full list.             *)
(***************************************************************************)
\* the class has one slab, on the full list, every cell of it held by the
\* host; cached is the number of slabs in the empty cache
InitSlabDrainState(cached) ==
    /\ slab_class = ConcClass
    /\ slab_tab = <<AgedSlab(1, ConcClass, 0 .. ObjectsPerSlab(ConcClass) - 1,
                             SLAB_LIST_FULL)>>
                  \o [i \in 1 .. cached |-> AgedSlab(i + 1, ConcClass, {}, SLAB_LIST_EMPTY)]
    /\ partial_slabs = <<>>
    /\ full_slabs = <<1>>
    /\ empty_slabs = [i \in 1 .. cached |-> i + 1]
    /\ empty_count = cached
    /\ slabs_count = cached + 1
    /\ class_lock = 0
    /\ slab_pc = [t \in Workers |-> SlabIdle]
    /\ held = AgedHeld(1, ConcClass, 0 .. ObjectsPerSlab(ConcClass) - 1)
    /\ slab_crashed = FALSE
    /\ nslabcalls = 0

InitSlabDrain ==
    /\ AllocQuiet /\ MigQuiet /\ LruQuiet /\ SlotQuiet /\ PlaceQuiet /\ RestQuiet
    /\ \E cached \in {0, SLAB_EMPTY_CACHE_MAX} : InitSlabDrainState(cached)

\* the host frees the cells it holds in the order of their addresses
LowestHeld == {c \in held : \A d \in held : c.ptr <= d.ptr}

NextSlabDrain ==
    \/ \E t \in Workers :
          SlabAllocBegin(t) /\ UNCHANGED <<allocVars, migVars, lruVars, slotVars, placeVars, restVars>>
    \/ \E t \in Workers :
          SlabFastClaim(t) /\ UNCHANGED <<allocVars, migVars, lruVars, slotVars, placeVars, restVars>>
    \/ \E t \in Workers :
          SlabFastDec(t) /\ UNCHANGED <<allocVars, migVars, lruVars, slotVars, placeVars, restVars>>
    \/ \E t \in Workers :
          SlabFullMove(t) /\ UNCHANGED <<allocVars, migVars, lruVars, slotVars, placeVars, restVars>>
    \/ \E t \in Workers, oom \in BOOLEAN :
          SlabSlowEnter(t, oom) /\ UNCHANGED <<allocVars, migVars, lruVars, slotVars, placeVars, restVars>>
    \/ \E t \in Workers :
          SlabSlowClaim(t) /\ UNCHANGED <<allocVars, migVars, lruVars, slotVars, placeVars, restVars>>
    \/ \E t \in Workers :
          SlabSlowDec(t) /\ UNCHANGED <<allocVars, migVars, lruVars, slotVars, placeVars, restVars>>
    \/ \E t \in Workers, c \in LowestHeld :
          SlabFreeBegin(t, c) /\ UNCHANGED <<allocVars, migVars, lruVars, slotVars, placeVars, restVars>>
    \/ \E t \in Workers :
          SlabFreeInc(t) /\ UNCHANGED <<allocVars, migVars, lruVars, slotVars, placeVars, restVars>>
    \/ \E t \in Workers :
          SlabFreeMove(t) /\ UNCHANGED <<allocVars, migVars, lruVars, slotVars, placeVars, restVars>>
    \/ \E t \in Workers :
          SlabUseAfterFree(t) /\ UNCHANGED <<allocVars, migVars, lruVars, slotVars, placeVars, restVars>>

SpecSlabDrain == InitSlabDrain /\ [][NextSlabDrain]_vars

\* the locked stretch of a numa_slab_free by thread t ends in this step
FreeMoveStep(t) == slab_pc[t].at = "free_lock" /\ slab_pc'[t] = SlabIdle

\* slab s has no cell handed out and its counter says so
SlabIsEmpty(s) ==
    slab_tab[s].bitmap = {} /\ slab_tab[s].free_count = slab_tab[s].objects_per_slab

\* C32: a numa_slab_free on a slab that was full moves it to the partial list;
\* a numa_slab_free that makes a slab empty (and finds it still empty under the
\* lock) moves it to the empty cache if the cache holds fewer than
\* SLAB_EMPTY_CACHE_MAX slabs and deallocates it otherwise; in every state
\* empty_count is the length of the empty list and at most SLAB_EMPTY_CACHE_MAX
C32_FreeMovesSlab ==
    /\ [](empty_count = Len(empty_slabs) /\ empty_count <= SLAB_EMPTY_CACHE_MAX)
    /\ [][\A t \in Workers :
             LET s == slab_pc[t].slab
                 was_full == slab_pc[t].old = 0
                 is_empty == U16Add(slab_pc[t].old) = slab_tab[s].objects_per_slab
             IN  FreeMoveStep(t) /\ ~slab_tab[s].freed =>
                   /\ was_full =>
                         /\ slab_tab'[s].list_type = SLAB_LIST_PARTIAL
                         /\ Links(partial_slabs', s) = 1
                   /\ is_empty /\ SlabIsEmpty(s)
                        /\ slab_tab[s].list_type # SLAB_LIST_EMPTY =>
                         IF empty_count < SLAB_EMPTY_CACHE_MAX
                         THEN /\ slab_tab'[s].list_type = SLAB_LIST_EMPTY
                              /\ Links(empty_slabs', s) = 1
                              /\ ~slab_tab'[s].freed
                         ELSE slab_tab'[s].freed]_vars

(***************************************************************************)
(* numa_pool_try_compact on the pools of numa_pool.c, with the prefix      *)
(* allocator of zmalloc.c as the host of the pool (SpecCompact).           *)
(* Utilisations are compared as integers: chunk sizes are powers of two    *)
(* and used_bytes is below 2^24, so the float quotient is exact.           *)
(***************************************************************************)
\* the free list of a pool is cleared when it holds more records than this
COMPACT_FREE_LIST_MIN == 10

\* utilization < COMPACT_THRESHOLD (0.3) and
\* (1.0f - utilization) >= COMPACT_MIN_FREE_RATIO (0.5)
LowUtilization(chunk) ==
    LET used == IF chunk.size > 0 THEN chunk.used_bytes ELSE 0
        size == IF chunk.size > 0 THEN chunk.size ELSE 1
    IN  10 * used < 3 * size /\ 2 * (size - used) >= size

\* numa_pool_try_compact on one pool: the free list is dropped when it holds
\* more than 10 records, and every chunk of low utilisation is unlinked and
\* given back with numa_free
CompactPool(ps, node, class_idx) ==
    LET fl == ListAt(ps.free_list, node, class_idx)
        cl == ListAt(ps.chunks, node, class_idx)
        gone == {i \in 1 .. Len(cl) : LowUtilization(cl[i])}
    IN  [chunks |-> SetListAt(ps.chunks, node, class_idx,
                              SelectSeq(cl, LAMBDA c : ~LowUtilization(c))),
         free_list |-> IF Len(fl) > COMPACT_FREE_LIST_MIN
                       THEN SetListAt(ps.free_list, node, class_idx, <<>>)
                       ELSE ps.free_list,
         os |-> {r \in ps.os :
                    \A i \in gone : r \in numa_free(ps.os, cl[i].memory, cl[i].size)}]

\* the pools that hold a chunk or a free-list record, in the order of the loops
PoolKeys(ps) == DOMAIN ps.chunks \cup DOMAIN ps.free_list

RECURSIVE CompactAll(_, _)
CompactAll(ps, keys) ==
    IF keys = {} THEN ps
    ELSE LET k == CHOOSE x \in keys :
                     \A y \in keys : x[1] < y[1] \/ (x[1] = y[1] /\ x[2] <= y[2])
         IN  CompactAll(CompactPool(ps, k[1], k[2]), keys \ {k})

\* numa_pool_try_compact(): the pool state afterwards
numa_pool_try_compact(ps) == CompactAll(ps, PoolKeys(ps))

\* the host calls numa_pool_try_compact
Compact ==
    /\ ~oom_abort /\ ~pool_fault
    /\ SetMS(WithPool(MS, numa_pool_try_compact(PoolOf(MS))))
    /\ UNCHANGED <<current_node, live, nallocs, nfail, oom_abort, pool_fault>>

\* block b lies in memory that is mapped
Mapped(b) == \E r \in os : r.base <= RawOf(b) /\ EndOf(b) <= r.base + r.len

\* the host reads or writes a block it holds whose chunk compaction has given
\* back to the OS: undefined behaviour, here the fault of the process (Free
\* and Realloc are the outcomes in which the memory still holds the prefix)
TouchReleased ==
    /\ ~oom_abort /\ ~pool_fault
    /\ \E b \in live : ~Mapped(b)
    /\ pool_fault' = TRUE
    /\ UNCHANGED allocVars

\* a chunk that earlier allocations filled and a free list of n blocks of it
AgedFreeList(n) ==
    [i \in 1 .. n |-> [ptr |-> BaseAddr + (i - 1) * AgedFree.size, size |-> AgedFree.size]]

InitCompact ==
    /\ MigQuiet /\ LruQuiet /\ SlotQuiet /\ SlabQuiet /\ PlaceQuiet /\ LaterQuiet
    /\ pool_fault = FALSE
    /\ \/ InitAllocState
       \/ /\ current_node = 0
          /\ \E slack \in AgedSlack :
                chunks = SetListAt(EmptyPools, 0, 14, <<AgedChunk(slack)>>)
          /\ free_list = SetListAt(EmptyPools, 0, 14,
                                   AgedFreeList(COMPACT_FREE_LIST_MIN + 1))
          /\ os = {[base |-> BaseAddr, len |-> CHUNK_SIZE_LARGE, node |-> 0]}
          /\ prefix = <<>> /\ live = {} /\ nallocs = 0 /\ nfail = 0
          /\ oom_abort = FALSE /\ used_memory = 0

NextCompact ==
    \/ \E size \in AllocSizes, oom \in OomChoices :
          /\ ~pool_fault /\ Alloc(size, oom)
          /\ UNCHANGED <<migVars, lruVars, slotVars, slabVars, placeVars, restVars>>
    \/ \E b \in live, rec_ok \in BOOLEAN :
          /\ ~pool_fault /\ Free(b, rec_ok)
          /\ UNCHANGED <<migVars, lruVars, slotVars, slabVars, placeVars, restVars>>
    \/ \E node \in NodeArgs :
          /\ ~pool_fault /\ SetNode(node)
          /\ UNCHANGED <<migVars, lruVars, slotVars, slabVars, placeVars, restVars>>
    \/ Compact /\ UNCHANGED <<migVars, lruVars, slotVars, slabVars, placeVars, laterVars>>
    \/ TouchReleased /\ UNCHANGED <<migVars, lruVars, slotVars, slabVars, placeVars, laterVars>>

SpecCompact == InitCompact /\ [][NextCompact]_vars

\* the chunks of all pools, and the records of all free lists
AllChunks(cs) == UNION {Range(cs[k]) : k \in DOMAIN cs}
AllRecords(fls) == UNION {Range(fls[k]) : k \in DOMAIN fls}

\* C33: after numa_pool_try_compact every block still recorded on a free list
\* lies outside the chunks that the call released, so that no later pool
\* allocation returns an address inside a released chunk
C33_NoRecordInReleasedChunk ==
    [][\A c \in AllChunks(chunks) \ AllChunks(chunks') :
          c.memory \notin {d.memory : d \in AllChunks(chunks')} =>
              \A rec \in AllRecords(free_list') :
                  ~(c.memory <= rec.ptr /\ rec.ptr < c.memory + c.size)]_vars

\* the byte ranges of two free-list records have a byte in common
RecordsOverlap(a, b) == a.ptr < b.ptr + b.size /\ b.ptr < a.ptr + a.size

\* the record numa_pool_free has just pushed on the free list of pool k lies
\* apart from the other records of the list
PushedApart(k) ==
    \A i \in 2 .. Len(free_list'[k]) :
        ~RecordsOverlap(Head(free_list'[k]), free_list'[k][i])

\* C34: after any sequence of pool allocations and frees of live pointers the
\* blocks recorded on the free list of a class are pairwise non-overlapping
\* and each has a recorded size of at least the object size of the class
C34_FreeListBlocks ==
    [][\A k \in DOMAIN free_list' :
          Len(free_list'[k]) > Len(ListAt(free_list, k[1], k[2])) =>
              /\ PushedApart(k)
              /\ Head(free_list'[k]).size >= numa_pool_size_classes[k[2] + 1]]_vars

\* C34, amended: the blocks recorded on the free list of a class are pairwise
\* non-overlapping and each has a recorded size of at most the object size of
\* the class
C34_FreeListBlocksAtMostClass ==
    \A k \in DOMAIN free_list :
        /\ \A i, j \in 1 .. Len(free_list[k]) :
              i < j => ~RecordsOverlap(free_list[k][i], free_list[k][j])
        /\ \A i \in 1 .. Len(free_list[k]) :
              free_list[k][i].size <= numa_pool_size_classes[k[2] + 1]

\* two blocks allocated in this run have been freed and are on one free list
C34_Witness ==
    /\ nallocs = MaxAllocs
    /\ \E k \in DOMAIN free_list : Len(free_list[k]) >= 2

\* ---------------------------------------------------------------------------
\* numa_strategy_run_slot and numa_strategy_run_all against
\* numa_strategy_slot_remove, called from two threads (SpecSlotsRun).
\* run_slot reads slots[slot_id] under the lock, releases the lock, calls
\* execute, and takes the lock again for the counters; remove unlinks the
\* strategy under the lock and destroys it after the unlock.
\* ---------------------------------------------------------------------------

\* ret of a run_slot call that no run_all pass made
DirectCall == 0 - 1

\* an access to a destroyed instance has stopped the process
SlotFault == \E t \in Workers : slot_threads[t].at = "fault"

\* the return of numa_strategy_run_slot: to the caller, or into the loop of
\* numa_strategy_run_all, which counts the call and goes on with the next look
RunReturn(t, ret) ==
    IF ret = DirectCall
    THEN /\ slot_threads' = [slot_threads EXCEPT ![t] = Idle]
         /\ UNCHANGED manager
    ELSE /\ slot_threads' = [slot_threads EXCEPT ![t] = [at |-> "all", look |-> ret]]
         /\ manager' = [manager EXCEPT !.total_strategy_executions = @ + 1]

\* numa_strategy_run_slot from its first lock to the unlock that follows:
\* the snapshot of slots[slot_id], the enabled test and the interval test
RunSlotLocked(t, slot_id, ret) ==
    IF ~Occupied(slots, slot_id) \/ ~Enabled(slots[slot_id])
       \/ ~IntervalElapsed(slots[slot_id], slot_clock)
    THEN RunReturn(t, ret)
    ELSE /\ slot_threads' = [slot_threads EXCEPT
                               ![t] = [at |-> "execute", slot |-> slot_id,
                                       id |-> slots[slot_id].id,
                                       name |-> slots[slot_id].name,
                                       now |-> slot_clock, ret |-> ret]]
         /\ UNCHANGED manager

\* numa_strategy_run_slot(slot_id) called by the host, up to the first unlock
RunSlotEnter(t, slot_id) ==
    /\ ~SlotFault
    /\ slot_threads[t] = Idle
    /\ nruns < MaxRuns
    /\ nruns' = nruns + 1
    /\ IF slot_id < 0 \/ slot_id >= NUMA_MAX_STRATEGY_SLOTS
       THEN UNCHANGED <<slot_threads, manager>>
       ELSE RunSlotLocked(t, slot_id, DirectCall)
    /\ UNCHANGED <<slots, factories, live_strategies, next_strategy, slot_clock,
                   pass_log, executed, disabled_by_call, nslotops, nslotticks>>

\* strategy->vtable->execute(strategy), with no lock held.  On an instance
\* that remove has destroyed the call reads freed memory: it stops the
\* process or goes on with what the memory still holds
RunExecute(t, fail) ==
    /\ ~SlotFault
    /\ slot_threads[t].at = "execute"
    /\ \E stops \in {FALSE, slot_threads[t].id \notin live_strategies} :
          slot_threads' =
             [slot_threads EXCEPT
                ![t] = IF stops THEN [at |-> "fault"]
                       ELSE [@ EXCEPT !.at = "stats"] @@
                            [result |-> execute([name |-> slot_threads[t].name], fail)]]
    /\ UNCHANGED <<slots, factories, manager, live_strategies, next_strategy,
                   slot_clock, pass_log, executed, disabled_by_call, nslotops,
                   nruns, nslotticks>>

\* the second locked region of numa_strategy_run_slot: last_execute_time,
\* total_executions and total_failures of the snapshot, and the return.  The
\* writes go to the instance, which is the one in the slot unless remove has
\* unlinked it; on a destroyed instance they go to freed memory
RunStats(t) ==
    LET th == slot_threads[t]
        linked == Occupied(slots, th.slot) /\ slots[th.slot].id = th.id
    IN  /\ ~SlotFault
        /\ th.at = "stats"
        /\ slots' = IF linked
                    THEN [slots EXCEPT
                            ![th.slot].last_execute_time = th.now,
                            ![th.slot].total_executions = @ + 1,
                            ![th.slot].total_failures = @ + FailureIncrement(th.result)]
                    ELSE slots
        /\ \E stops \in {FALSE, th.id \notin live_strategies} :
              IF stops
              THEN /\ slot_threads' = [slot_threads EXCEPT ![t] = [at |-> "fault"]]
                   /\ UNCHANGED manager
              ELSE RunReturn(t, th.ret)
        /\ UNCHANGED <<factories, live_strategies, next_strategy, slot_clock,
                       pass_log, executed, disabled_by_call, nslotops, nruns,
                       nslotticks>>

\* numa_strategy_run_all up to its loops: the initialized test, total_runs++
RunAllEnter(t) ==
    /\ ~SlotFault
    /\ slot_threads[t] = Idle
    /\ nruns < MaxRuns
    /\ nruns' = nruns + 1
    /\ manager.initialized = 1
    /\ manager' = [manager EXCEPT !.total_runs = @ + 1]
    /\ slot_threads' = [slot_threads EXCEPT ![t] = [at |-> "all", look |-> 0]]
    /\ UNCHANGED <<slots, factories, live_strategies, next_strategy, slot_clock,
                   pass_log, executed, disabled_by_call, nslotops, nslotticks>>

\* the loops of numa_strategy_run_all from look number pc.look to the first
\* look whose slot holds an enabled strategy of the priority of the look.
\* The other threads only remove strategies and write counters, so a look
\* that finds nothing would find nothing at any later time, and the looks
\* that find nothing are taken together with the one that follows them
RunAllLook(t) ==
    LET from == slot_threads[t].look
        hits == {i \in from .. 3 * NUMA_SLOTS_PER_SWEEP - 1 : VisitRuns(slots, i)}
    IN  /\ ~SlotFault
        /\ slot_threads[t].at = "all"
        /\ slot_threads' =
              [slot_threads EXCEPT
                 ![t] = IF hits = {} THEN Idle
                        ELSE LET j == CHOOSE i \in hits : \A k \in hits : i <= k
                             IN  [at |-> "run", slot |-> VisitSlot(j), ret |-> j + 1]]
        /\ UNCHANGED <<slots, factories, manager, live_strategies, next_strategy,
                       slot_clock, pass_log, executed, disabled_by_call, nslotops,
                       nruns, nslotticks>>

\* numa_strategy_run_slot(slot_id) called by numa_strategy_run_all after its
\* unlock, up to the first unlock of run_slot
RunAllCall(t) ==
    /\ ~SlotFault
    /\ slot_threads[t].at = "run"
    /\ RunSlotLocked(t, slot_threads[t].slot, slot_threads[t].ret)
    /\ UNCHANGED <<slots, factories, live_strategies, next_strategy, slot_clock,
                   pass_log, executed, disabled_by_call, nslotops, nruns,
                   nslotticks>>

\* numa_strategy_slot_remove(slot_id) up to its unlock: slots[slot_id] = NULL
RemoveUnlink(t, slot_id) ==
    /\ ~SlotFault
    /\ slot_threads[t] = Idle
    /\ nslotops < MaxSlotOps
    /\ nslotops' = nslotops + 1
    /\ IF slot_id < 0 \/ slot_id >= NUMA_MAX_STRATEGY_SLOTS \/ ~Occupied(slots, slot_id)
       THEN UNCHANGED <<slots, slot_threads>>
       ELSE /\ slots' = [slots EXCEPT ![slot_id] = NoStrategy]
            /\ slot_threads' = [slot_threads EXCEPT
                                  ![t] = [at |-> "destroy", id |-> slots[slot_id].id]]
    /\ UNCHANGED <<factories, manager, live_strategies, next_strategy, slot_clock,
                   pass_log, executed, disabled_by_call, nruns, nslotticks>>

\* numa_strategy_destroy(strategy) at the end of numa_strategy_slot_remove:
\* the factory's destroy frees the instance
RemoveDestroy(t) ==
    /\ ~SlotFault
    /\ slot_threads[t].at = "destroy"
    /\ live_strategies' = live_strategies \ {slot_threads[t].id}
    /\ slot_threads' = [slot_threads EXCEPT ![t] = Idle]
    /\ UNCHANGED <<slots, factories, manager, next_strategy, slot_clock,
                   pass_log, executed, disabled_by_call, nslotops, nruns,
                   nslotticks>>

\* numa_strategy_init, and the host has put a strategy of its own in slot 2
InitSlotsRun ==
    /\ AllocQuiet /\ MigQuiet /\ LruQuiet /\ MoreQuiet
    /\ slots = [s \in SlotIds |->
                   CASE s = 0 -> NewStrategy("noop", 1)
                     [] s = 1 -> NewStrategy("composite-lru", 2)
                     [] s = 2 -> NewStrategy("custom", 3)
                     [] OTHER -> NoStrategy]
    /\ factories = {"noop", "composite-lru", "custom"}
    /\ manager = [initialized |-> 1, total_runs |-> 0, total_strategy_executions |-> 0]
    /\ live_strategies = {1, 2, 3} /\ next_strategy = 4
    /\ slot_clock = SlotClockStart
    /\ pass_log = <<>>
    /\ executed = [s \in SlotIds |-> [count |-> 0, at |-> -1, id |-> 0, result |-> 0]]
    /\ disabled_by_call = {}
    /\ nslotops = 0 /\ nruns = 0 /\ nslotticks = 0
    /\ slot_threads = [t \in Workers |-> Idle]

NextSlotsRun ==
    \/ \E t \in Workers, slot_id \in SlotArgs :
          RunSlotEnter(t, slot_id) /\ UNCHANGED <<allocVars, migVars, lruVars, moreVars>>
    \/ \E t \in Workers, fail \in BOOLEAN :
          RunExecute(t, fail) /\ UNCHANGED <<allocVars, migVars, lruVars, moreVars>>
    \/ \E t \in Workers : RunStats(t) /\ UNCHANGED <<allocVars, migVars, lruVars, moreVars>>
    \/ \E t \in Workers : RunAllEnter(t) /\ UNCHANGED <<allocVars, migVars, lruVars, moreVars>>
    \/ \E t \in Workers : RunAllLook(t) /\ UNCHANGED <<allocVars, migVars, lruVars, moreVars>>
    \/ \E t \in Workers : RunAllCall(t) /\ UNCHANGED <<allocVars, migVars, lruVars, moreVars>>
    \/ \E t \in Workers, slot_id \in SlotArgs :
          RemoveUnlink(t, slot_id) /\ UNCHANGED <<allocVars, migVars, lruVars, moreVars>>
    \/ \E t \in Workers : RemoveDestroy(t) /\ UNCHANGED <<allocVars, migVars, lruVars, moreVars>>
    \/ \E step \in SlotTickSteps :
          ~SlotFault /\ SlotTick(step) /\ UNCHANGED <<allocVars, migVars, lruVars, moreVars>>

SpecSlotsRun == InitSlotsRun /\ [][NextSlotsRun]_vars

\* the step of thread t that calls execute, and the one that writes the
\* counters
ExecuteStep(t) == slot_threads[t].at = "execute" /\ slot_threads'[t] # slot_threads[t]

StatsStep(t) == slot_threads[t].at = "stats" /\ slot_threads'[t] # slot_threads[t]

\* C35: whatever the interleaving of run_slot, run_all and remove, execute is
\* never called on, and no counter is written to, a strategy instance that
\* remove has destroyed
C35_NoUseAfterDestroy ==
    [][\A t \in Workers :
          ExecuteStep(t) \/ StatsStep(t) => slot_threads[t].id \in live_strategies]_vars

\* ---------------------------------------------------------------------------
\* select_best_node and numa_config_needs_rebalance with g_config_mutex as
\* state (SpecPlaceLock).  g_config_mutex is a PTHREAD_MUTEX_INITIALIZER
\* mutex: a thread that locks it while another holds it waits, and a lock by
\* the thread that holds it is undefined (POSIX, default mutex type): the
\* thread waits for itself for ever, or the lock is granted.
\* ---------------------------------------------------------------------------

\* select_best_node(size) up to the switch: pthread_mutex_lock
SelectEnter(t, size) ==
    /\ cfg_fault = "none" /\ ncfgcalls < MaxCfgCalls
    /\ cfg_threads[t] = Idle
    /\ g_config_mutex = 0
    /\ g_config_mutex' = t
    /\ cfg_threads' = [cfg_threads EXCEPT ![t] = [at |-> "switch", size |-> size]]
    /\ UNCHANGED <<placeVars, manager_lock>>

\* the switch of select_best_node.  The pressure-aware case starts its loop
\* over the nodes; every other case selects, counts and unlocks
SelectSwitch(t, rnd, goes_on) ==
    /\ cfg_threads[t].at = "switch"
    /\ IF strategy_type = NUMA_STRATEGY_CONFIG_PRESSURE_AWARE
       THEN /\ cfg_fault = "none"
            /\ cfg_threads' = [cfg_threads EXCEPT
                                 ![t] = [at |-> "scan", call |-> "select",
                                         size |-> cfg_threads[t].size, i |-> 0,
                                         min_utilization |-> GiB, max_util |-> 0,
                                         selected_node |-> 0]]
            /\ ncfgcalls' = ncfgcalls + 1
            /\ UNCHANGED <<strategy_type, node_weights, balance_threshold,
                           enable_cxl_optimization, auto_rebalance,
                           allocation_counters, bytes_allocated_per_node, rr_index,
                           rr_turn, cfg_selected, cfg_reply, cfg_fault,
                           g_config_mutex>>
       ELSE /\ select_best_node(t, cfg_threads[t].size, rnd, goes_on)
            /\ IF cfg_fault' = "none"
               THEN /\ g_config_mutex' = 0
                    /\ cfg_threads' = [cfg_threads EXCEPT ![t] = Idle]
               ELSE UNCHANGED <<g_config_mutex, cfg_threads>>
    /\ UNCHANGED manager_lock

\* numa_config_needs_rebalance() with auto_rebalance set, called when the
\* rebalance interval has passed, up to its loop: pthread_mutex_lock.  (A
\* call before that returns 0 and touches neither the mutex nor the state.)
RebalanceEnter(t) ==
    /\ cfg_fault = "none" /\ ncfgcalls < MaxCfgCalls
    /\ cfg_threads[t] = Idle
    /\ auto_rebalance # 0
    /\ g_config_mutex = 0
    /\ g_config_mutex' = t
    /\ cfg_threads' = [cfg_threads EXCEPT
                         ![t] = [at |-> "scan", call |-> "rebalance", size |-> 0,
                                 i |-> 0, min_utilization |-> INT_MAX,
                                 max_util |-> 0, selected_node |-> 0]]
    /\ ncfgcalls' = ncfgcalls + 1
    /\ UNCHANGED <<strategy_type, node_weights, balance_threshold,
                   enable_cxl_optimization, auto_rebalance, allocation_counters,
                   bytes_allocated_per_node, rr_index, rr_turn, cfg_selected,
                   cfg_reply, cfg_fault, manager_lock>>

\* one turn of the loop over the nodes, in select_best_node (pressure-aware)
\* and in numa_config_needs_rebalance: numa_config_get_node_utilization(i)
\* locks g_config_mutex, reads the byte count and unlocks.  The caller holds
\* the mutex: the thread waits for itself, or the lock is granted and the
\* unlock inside the call releases the mutex under the caller
ScanNode(t, goes_on) ==
    LET th == cfg_threads[t]
        utilization == numa_config_get_node_utilization(th.i)
    IN  /\ cfg_fault = "none"
        /\ th.at = "scan" /\ th.i < NumNodes
        /\ g_config_mutex \in {0, t}
        /\ IF g_config_mutex = t /\ ~goes_on
           THEN /\ cfg_threads' = [cfg_threads EXCEPT ![t].at = "waits"]
                /\ UNCHANGED g_config_mutex
           ELSE /\ g_config_mutex' = 0
                /\ cfg_threads' =
                      [cfg_threads EXCEPT
                         ![t] = [th EXCEPT
                                   !.i = @ + 1,
                                   !.min_utilization =
                                       IF utilization < @ THEN utilization ELSE @,
                                   !.max_util = IF utilization > @ THEN utilization ELSE @,
                                   !.selected_node =
                                       IF th.call = "select" /\ utilization < th.min_utilization
                                       THEN th.i ELSE @]]
        /\ UNCHANGED <<placeVars, manager_lock>>

\* after the loop: select_best_node counts the selection, both calls unlock
\* and return
ScanReturn(t) ==
    LET th == cfg_threads[t]
        node == th.selected_node
    IN  /\ cfg_fault = "none"
        /\ th.at = "scan" /\ th.i >= NumNodes
        /\ IF th.call = "select"
           THEN /\ cfg_selected' = [t |-> t, strategy |-> strategy_type,
                                    size |-> th.size, node |-> node]
                /\ allocation_counters' = [allocation_counters EXCEPT ![node + 1] = @ + 1]
                /\ bytes_allocated_per_node' =
                      [bytes_allocated_per_node EXCEPT ![node + 1] = @ + th.size]
           ELSE UNCHANGED <<cfg_selected, allocation_counters, bytes_allocated_per_node>>
        /\ g_config_mutex' = 0
        /\ cfg_threads' = [cfg_threads EXCEPT ![t] = Idle]
        /\ UNCHANGED <<strategy_type, node_weights, balance_threshold,
                       enable_cxl_optimization, auto_rebalance, rr_index, rr_turn,
                       cfg_reply, cfg_fault, ncfgcalls, manager_lock>>

\* NUMACONFIG SET strategy <name> on the command thread:
\* numa_config_set_strategy locks, stores and unlocks
SetStrategyCommand(cmd) ==
    /\ g_config_mutex = 0
    /\ numaconfigCommand(cmd)
    /\ UNCHANGED lockVars

\* after numa_config_strategy_init and earlier calls, under any strategy
InitPlaceLock ==
    /\ AllocQuiet /\ MigQuiet /\ LruQuiet /\ SlotQuiet /\ SlabQuiet /\ RestQuiet
    /\ \E strategy \in 0 .. Len(strategy_names) - 1,
          bytes \in [1 .. NumNodes -> AgedBytes] :
          InitPlaceState(strategy, bytes, [t \in Workers |-> 0])

NextPlaceLock ==
    \/ \E t \in Workers, size \in SelectSizes :
          /\ SelectEnter(t, size)
          /\ UNCHANGED <<allocVars, migVars, lruVars, slotVars, slabVars, compactVars,
                         nodeVars, deltaVars>>
    \/ \E t \in Workers, rnd \in Nodes, goes_on \in BOOLEAN :
          /\ SelectSwitch(t, rnd, goes_on)
          /\ UNCHANGED <<allocVars, migVars, lruVars, slotVars, slabVars, compactVars,
                         nodeVars, deltaVars>>
    \/ \E t \in Workers :
          /\ RebalanceEnter(t)
          /\ UNCHANGED <<allocVars, migVars, lruVars, slotVars, slabVars, compactVars,
                         nodeVars, deltaVars>>
    \/ \E t \in Workers, goes_on \in BOOLEAN :
          /\ ScanNode(t, goes_on)
          /\ UNCHANGED <<allocVars, migVars, lruVars, slotVars, slabVars, compactVars,
                         nodeVars, deltaVars>>
    \/ \E t \in Workers :
          /\ ScanReturn(t)
          /\ UNCHANGED <<allocVars, migVars, lruVars, slotVars, slabVars, compactVars,
                         nodeVars, deltaVars>>
    \/ \E cmd \in {c \in SetCommands : c.param = "strategy"} :
          /\ SetStrategyCommand(cmd)
          /\ UNCHANGED <<allocVars, migVars, lruVars, slotVars, slabVars, compactVars,
                         nodeVars, deltaVars>>

SpecPlaceLock == InitPlaceLock /\ [][NextPlaceLock]_vars

\* C36: every node selection and every numa_config_needs_rebalance call
\* returns with g_config_mutex released: no thread ever waits for the mutex
\* while holding it, and when no call is under way the mutex is free
C36_CallsReleaseConfigMutex ==
    /\ \A t \in Workers : cfg_threads[t].at # "waits"
    /\ (\A t \in Workers : cfg_threads[t] = Idle) => g_config_mutex = 0

\* ---------------------------------------------------------------------------
\* numa_strategy_cleanup with strategy_manager.lock as state (SpecCleanup).
\* The lock is made by pthread_mutex_init(&lock, NULL): a lock by the thread
\* that holds it is undefined (POSIX, default mutex type): the thread waits
\* for itself for ever, or the lock is granted.
\* ---------------------------------------------------------------------------

\* numa_strategy_cleanup() up to its loop: the initialized test and
\* pthread_mutex_lock
CleanupEnter(t) ==
    /\ \A u \in Workers : slot_threads[u] = Idle
    /\ manager.initialized = 1
    /\ manager_lock = 0
    /\ manager_lock' = t
    /\ slot_threads' = [slot_threads EXCEPT ![t] = [at |-> "cleanup", i |-> 0]]
    /\ UNCHANGED <<slots, factories, manager, live_strategies, next_strategy,
                   slot_clock, pass_log, executed, disabled_by_call, nslotops,
                   nruns, nslotticks>>
    /\ UNCHANGED <<g_config_mutex, cfg_threads>>

\* one turn of the loop of numa_strategy_cleanup: for an occupied slot
\* numa_strategy_destroy(slots[i]), which locks strategy_manager.lock, has
\* the factory free the instance and unlocks, then slots[i] = NULL.  The
\* caller holds the lock: the thread waits for itself, or the lock is granted
\* and the unlock inside numa_strategy_destroy releases it under the caller
CleanupSlot(t, goes_on) ==
    LET i == slot_threads[t].i
    IN  /\ slot_threads[t].at = "cleanup" /\ i < NUMA_MAX_STRATEGY_SLOTS
        /\ IF ~Occupied(slots, i)
           THEN /\ slot_threads' = [slot_threads EXCEPT ![t].i = i + 1]
                /\ UNCHANGED <<slots, live_strategies, manager_lock>>
           ELSE /\ manager_lock \in {0, t}
                /\ IF manager_lock = t /\ ~goes_on
                   THEN /\ slot_threads' = [slot_threads EXCEPT ![t].at = "waits"]
                        /\ UNCHANGED <<slots, live_strategies, manager_lock>>
                   ELSE /\ live_strategies' =
                              IF find_factory(slots[i].name)
                              THEN live_strategies \ {slots[i].id}
                              ELSE live_strategies
                        /\ manager_lock' = 0
                        /\ slots' = [slots EXCEPT ![i] = NoStrategy]
                        /\ slot_threads' = [slot_threads EXCEPT ![t].i = i + 1]
        /\ UNCHANGED <<factories, manager, next_strategy, slot_clock, pass_log,
                       executed, disabled_by_call, nslotops, nruns, nslotticks>>
        /\ UNCHANGED <<g_config_mutex, cfg_threads>>

\* after the loop: initialized = 0, pthread_mutex_unlock, pthread_mutex_destroy
CleanupReturn(t) ==
    /\ slot_threads[t].at = "cleanup" /\ slot_threads[t].i >= NUMA_MAX_STRATEGY_SLOTS
    /\ manager' = [manager EXCEPT !.initialized = 0]
    /\ manager_lock' = 0
    /\ slot_threads' = [slot_threads EXCEPT ![t] = Idle]
    /\ UNCHANGED <<slots, factories, live_strategies, next_strategy, slot_clock,
                   pass_log, executed, disabled_by_call, nslotops, nruns,
                   nslotticks>>
    /\ UNCHANGED <<g_config_mutex, cfg_threads>>

\* a call of the host while the framework is up and the lock is free
HostCall == manager.initialized = 1 /\ manager_lock = 0

NextCleanup ==
    \/ \E slot_id \in SlotArgs, name \in StrategyNames :
          /\ HostCall /\ numa_strategy_slot_insert(slot_id, name)
          /\ UNCHANGED <<allocVars, migVars, lruVars, moreVars>>
    \/ \E slot_id \in SlotArgs :
          /\ HostCall /\ numa_strategy_slot_remove(slot_id)
          /\ UNCHANGED <<allocVars, migVars, lruVars, moreVars>>
    \/ \E t \in Workers :
          /\ CleanupEnter(t)
          /\ UNCHANGED <<allocVars, migVars, lruVars, slabVars, placeVars, compactVars,
                         nodeVars, deltaVars>>
    \/ \E t \in Workers, goes_on \in BOOLEAN :
          /\ CleanupSlot(t, goes_on)
          /\ UNCHANGED <<allocVars, migVars, lruVars, slabVars, placeVars, compactVars,
                         nodeVars, deltaVars>>
    \/ \E t \in Workers :
          /\ CleanupReturn(t)
          /\ UNCHANGED <<allocVars, migVars, lruVars, slabVars, placeVars, compactVars,
                         nodeVars, deltaVars>>

SpecCleanup == InitSlots /\ [][NextCleanup]_vars

\* C37: numa_strategy_cleanup after numa_strategy_init terminates: it never
\* waits for the scheduler mutex while holding it, and when it has returned
\* every slot is empty, every strategy instance is destroyed and the mutex is
\* released
C37_CleanupTerminates ==
    /\ \A t \in Workers : slot_threads[t].at # "waits"
    /\ (manager.initialized = 0 /\ \A t \in Workers : slot_threads[t] = Idle) =>
          /\ \A s \in SlotIds : ~Occupied(slots, s)
          /\ live_strategies = {}
          /\ manager_lock = 0

\* ---------------------------------------------------------------------------
\* The node count as state (SpecPlaceNodes): numa_config_set_node_weights and
\* numa_config_apply_strategy change g_runtime_state.config.num_nodes; the
\* arrays allocation_counters and bytes_allocated_per_node keep the length
\* init_runtime_state gave them, node_weights has the length of its last
\* allocation.  The sequences of the model have the allocated lengths.
\* ---------------------------------------------------------------------------

\* numa_config_apply_strategy: config->num_nodes > 64 is refused
NUMA_CONFIG_MAX_NODES == 64

\* g_runtime_state.config.node_weights[i]; beyond the allocation the read
\* yields whatever lies there
WeightAt(i, garbage) == IF i < Len(node_weights) THEN node_weights[i + 1] ELSE garbage

\* the sum of the weights of the nodes below n
RECURSIVE CumulativeWeight(_, _)
CumulativeWeight(n, garbage) ==
    IF n <= 0 THEN 0 ELSE CumulativeWeight(n - 1, garbage) + WeightAt(n - 1, garbage)

\* the weighted case of select_best_node; rnd is the value of rand_r
WeightedNode(rnd, garbage) ==
    LET total_weight == CumulativeWeight(num_nodes, garbage)
        hits == {i \in 0 .. num_nodes - 1 :
                    rnd % total_weight < CumulativeWeight(i + 1, garbage)}
    IN  IF total_weight > 0 /\ hits # {}
        THEN CHOOSE i \in hits : \A j \in hits : i <= j
        ELSE 0

\* numa_config_get_node_utilization(node_id) with the node count of the
\* state, in units of 1 / GiB
UtilizationAt(node_id, garbage) ==
    IF node_id < 0 \/ node_id >= num_nodes THEN 0
    ELSE IF node_id < Len(bytes_allocated_per_node)
    THEN bytes_allocated_per_node[node_id + 1] ELSE garbage

\* the loop of the pressure-aware case from node i on
RECURSIVE PressureNode(_, _, _, _)
PressureNode(i, min_utilization, selected_node, garbage) ==
    IF i >= num_nodes THEN selected_node
    ELSE IF UtilizationAt(i, garbage) < min_utilization
    THEN PressureNode(i + 1, UtilizationAt(i, garbage), i, garbage)
    ELSE PressureNode(i + 1, min_utilization, selected_node, garbage)

\* the node the switch of select_best_node selects
NodeSelected(t, size, rnd, garbage) ==
    CASE strategy_type = NUMA_STRATEGY_CONFIG_LOCAL_FIRST -> 0
      [] strategy_type = NUMA_STRATEGY_CONFIG_INTERLEAVE -> rnd % num_nodes
      [] strategy_type = NUMA_STRATEGY_CONFIG_ROUND_ROBIN -> CRem(rr_index[t], num_nodes)
      [] strategy_type = NUMA_STRATEGY_CONFIG_WEIGHTED -> WeightedNode(rnd, garbage)
      [] strategy_type = NUMA_STRATEGY_CONFIG_PRESSURE_AWARE ->
            PressureNode(0, GiB, 0, garbage)
      [] strategy_type = NUMA_STRATEGY_CONFIG_CXL_OPTIMIZED ->
            IF size < min_allocation_size THEN 0 ELSE IF num_nodes > 1 THEN 1 ELSE 0
      [] OTHER -> 0

\* the call indexes an array outside its allocation
OutOfBounds(node) ==
    \/ node < 0 \/ node >= Len(allocation_counters)
    \/ node >= Len(bytes_allocated_per_node)
    \/ strategy_type = NUMA_STRATEGY_CONFIG_WEIGHTED /\ num_nodes > Len(node_weights)
    \/ strategy_type = NUMA_STRATEGY_CONFIG_PRESSURE_AWARE
       /\ num_nodes > Len(bytes_allocated_per_node)

\* select_best_node(size) by thread t.  Where the call is undefined (rr_index++
\* at INT_MAX, the second lock of the pressure-aware case, an index outside
\* an array) it stops the process or goes on: the counter wraps, a read
\* outside an array yields garbage, a write outside lands elsewhere
SelectNode(t, size, rnd, garbage, goes_on) ==
    LET node == NodeSelected(t, size, rnd, garbage)
        undefined ==
            \/ strategy_type = NUMA_STRATEGY_CONFIG_ROUND_ROBIN /\ rr_index[t] = INT_MAX
            \/ strategy_type = NUMA_STRATEGY_CONFIG_PRESSURE_AWARE
            \/ OutOfBounds(node)
    IN  /\ cfg_fault = "none" /\ ncfgcalls < MaxCfgCalls
        /\ ncfgcalls' = ncfgcalls + 1
        /\ IF undefined /\ ~goes_on
           THEN /\ cfg_fault' =
                      IF strategy_type = NUMA_STRATEGY_CONFIG_PRESSURE_AWARE
                      THEN "deadlock" ELSE "trap"
                /\ UNCHANGED <<allocation_counters, bytes_allocated_per_node,
                               rr_index, rr_turn, cfg_selected>>
           ELSE /\ cfg_selected' = [t |-> t, strategy |-> strategy_type, size |-> size,
                                    node |-> node, call |-> ncfgcalls + 1]
                /\ IF strategy_type = NUMA_STRATEGY_CONFIG_ROUND_ROBIN
                   THEN /\ rr_index' = [rr_index EXCEPT ![t] =
                              IF @ = INT_MAX THEN INT_MIN ELSE @ + 1]
                        /\ rr_turn' = [rr_turn EXCEPT ![t] = (@ + 1) % num_nodes]
                   ELSE UNCHANGED <<rr_index, rr_turn>>
                /\ allocation_counters' =
                      IF node >= 0 /\ node < Len(allocation_counters)
                      THEN [allocation_counters EXCEPT ![node + 1] = @ + 1]
                      ELSE allocation_counters
                /\ bytes_allocated_per_node' =
                      IF node >= 0 /\ node < Len(bytes_allocated_per_node)
                      THEN [bytes_allocated_per_node EXCEPT ![node + 1] = @ + size]
                      ELSE bytes_allocated_per_node
                /\ UNCHANGED cfg_fault
        /\ UNCHANGED <<strategy_type, node_weights, balance_threshold,
                       enable_cxl_optimization, auto_rebalance, cfg_reply, num_nodes>>

\* numa_config_set_strategy(strategy)
numa_config_set_strategy(strategy) ==
    /\ cfg_fault = "none" /\ ncfgcalls < MaxCfgCalls
    /\ ncfgcalls' = ncfgcalls + 1
    /\ strategy_type' = strategy
    /\ UNCHANGED <<node_weights, balance_threshold, enable_cxl_optimization,
                   auto_rebalance, allocation_counters, bytes_allocated_per_node,
                   rr_index, rr_turn, cfg_selected, cfg_reply, cfg_fault, num_nodes>>

\* numa_config_set_node_weights(weights, n) with an array of n weights: for
\* n <= 0 an error; for n other than the node count a new array of n weights
\* and num_nodes = n; then the copy
numa_config_set_node_weights(weights, n) ==
    /\ cfg_fault = "none" /\ ncfgcalls < MaxCfgCalls
    /\ ncfgcalls' = ncfgcalls + 1
    /\ IF n <= 0
       THEN UNCHANGED <<node_weights, num_nodes>>
       ELSE /\ num_nodes' = n
            /\ node_weights' =
                  [i \in 1 .. (IF n # num_nodes THEN n ELSE Len(node_weights)) |->
                      IF i <= n THEN weights[i] ELSE node_weights[i]]
    /\ UNCHANGED <<strategy_type, balance_threshold, enable_cxl_optimization,
                   auto_rebalance, allocation_counters, bytes_allocated_per_node,
                   rr_index, rr_turn, cfg_selected, cfg_reply, cfg_fault>>

\* numa_config_apply_strategy(config): the node count is tested, then
\* g_runtime_state.config = *config, which takes over the caller's weights
\* array.  The configurations applied keep the threshold, the flags and
\* min_allocation_size of the running one
numa_config_apply_strategy(config) ==
    /\ cfg_fault = "none" /\ ncfgcalls < MaxCfgCalls
    /\ ncfgcalls' = ncfgcalls + 1
    /\ IF config.num_nodes <= 0 \/ config.num_nodes > NUMA_CONFIG_MAX_NODES
       THEN UNCHANGED <<strategy_type, node_weights, num_nodes>>
       ELSE /\ strategy_type' = config.strategy_type
            /\ node_weights' = config.node_weights
            /\ num_nodes' = config.num_nodes
    /\ UNCHANGED <<balance_threshold, enable_cxl_optimization, auto_rebalance,
                   allocation_counters, bytes_allocated_per_node, rr_index, rr_turn,
                   cfg_selected, cfg_reply, cfg_fault>>

\* the arguments tried: weights arrays of one to three nodes, and whole
\* configurations whose weights array has num_nodes entries
WeightChoices == {0, 100}
WeightArrays == UNION {[1 .. n -> WeightChoices] : n \in 1 .. 3}
ConfigNodeCounts == {0, 1, 3, NUMA_CONFIG_MAX_NODES + 1}
AppliedConfigs ==
    {[strategy_type |-> s, num_nodes |-> n,
      node_weights |-> [i \in 1 .. (IF n \in 1 .. NUMA_CONFIG_MAX_NODES THEN n ELSE 0) |-> w]] :
        s \in {NUMA_STRATEGY_CONFIG_ROUND_ROBIN, NUMA_STRATEGY_CONFIG_WEIGHTED},
        n \in ConfigNodeCounts, w \in WeightChoices}

\* after numa_config_strategy_init on a host of NumNodes nodes, and earlier
\* selections
InitPlaceNodes ==
    /\ AllocQuiet /\ MigQuiet /\ LruQuiet /\ SlotQuiet /\ SlabQuiet
    /\ CompactQuiet /\ LockQuiet /\ DeltaQuiet
    /\ num_nodes = NumNodes
    /\ \E r \in AgedRoundRobin :
          InitPlaceState(NUMA_STRATEGY_CONFIG_INTERLEAVE, [i \in 1 .. NumNodes |-> 0],
                         [t \in Workers |-> IF t = 1 THEN r ELSE 0])

NextPlaceNodes ==
    \/ \E t \in Workers, size \in SelectSizes, rnd \in 0 .. 2, garbage \in WeightChoices,
          goes_on \in BOOLEAN :
          /\ SelectNode(t, size, rnd, garbage, goes_on)
          /\ UNCHANGED <<allocVars, migVars, lruVars, slotVars, slabVars, compactVars,
                         lockVars, deltaVars>>
    \/ \E strategy \in 0 .. Len(strategy_names) - 1 :
          /\ numa_config_set_strategy(strategy)
          /\ UNCHANGED <<allocVars, migVars, lruVars, slotVars, slabVars, compactVars,
                         lockVars, deltaVars>>
    \/ \E weights \in WeightArrays :
          /\ numa_config_set_node_weights(weights, Len(weights))
          /\ UNCHANGED <<allocVars, migVars, lruVars, slotVars, slabVars, compactVars,
                         lockVars, deltaVars>>
    \/ \E config \in AppliedConfigs :
          /\ numa_config_apply_strategy(config)
          /\ UNCHANGED <<allocVars, migVars, lruVars, slotVars, slabVars, compactVars,
                         lockVars, deltaVars>>

SpecPlaceNodes == InitPlaceNodes /\ [][NextPlaceNodes]_vars

\* C38: after any configuration calls and any earlier selections the node a
\* selection returns is at least 0 and below the node count, and the weight
\* and counter arrays are indexed within their allocated length
C38_SelectionWithinArrays ==
    [][cfg_selected' # cfg_selected =>
          /\ 0 <= cfg_selected'.node /\ cfg_selected'.node < num_nodes
          /\ ~OutOfBounds(cfg_selected'.node)]_vars

\* ---------------------------------------------------------------------------
\* The migration statistics with numa_reset_migration_statistics
\* (SpecMigStats): the calls of SpecMig and the reset, which may come between
\* any two steps of a migration, since the per-kind functions run without
\* global_ctx.mutex.
\* ---------------------------------------------------------------------------

\* numa_reset_migration_statistics(): memset of global_ctx.stats under the
\* mutex
numa_reset_migration_statistics ==
    /\ stats.total_migrations > 0
    /\ stats' = [total_migrations |-> 0, successful_migrations |-> 0,
                 failed_migrations |-> 0]
    /\ UNCHANGED <<heap, val, buf, key_metadata, migrate_stats, pc, mig, last, nmigs,
                   lru_clock>>

NextMigStats ==
    \/ \E key \in KeyArgs, target_node \in TargetArgs :
          MigrateBegin(key, target_node) /\ UNCHANGED <<allocVars, lruVars, slotVars, moreVars>>
    \/ \E ok \in BOOLEAN : StringCopy(ok) /\ UNCHANGED <<allocVars, lruVars, slotVars, moreVars>>
    \/ \E ok \in BOOLEAN : BlobCopy(ok) /\ UNCHANGED <<allocVars, lruVars, slotVars, moreVars>>
    \/ \E ok_create \in BOOLEAN, ok_expand \in BOOLEAN :
          DictCreate(ok_create, ok_expand) /\ UNCHANGED <<allocVars, lruVars, slotVars, moreVars>>
    \/ \E ok_field \in BOOLEAN, ok_value \in BOOLEAN :
          DictCopyEntry(ok_field, ok_value) /\ UNCHANGED <<allocVars, lruVars, slotVars, moreVars>>
    \/ \E ok \in BOOLEAN : ListHeader(ok) /\ UNCHANGED <<allocVars, lruVars, slotVars, moreVars>>
    \/ \E ok_node \in BOOLEAN, ok_zl \in BOOLEAN :
          ListCopyNode(ok_node, ok_zl) /\ UNCHANGED <<allocVars, lruVars, slotVars, moreVars>>
    \/ \E fail_at \in ZsetFailPoints : ZsetCreate(fail_at) /\ UNCHANGED <<allocVars, lruVars, slotVars, moreVars>>
    \/ \E ok \in BOOLEAN : ZsetCopyElement(ok) /\ UNCHANGED <<allocVars, lruVars, slotVars, moreVars>>
    \/ Publish /\ UNCHANGED <<allocVars, lruVars, slotVars, moreVars>>
    \/ ReleaseOld /\ UNCHANGED <<allocVars, lruVars, slotVars, moreVars>>
    \/ MigrateFinish /\ UNCHANGED <<allocVars, lruVars, slotVars, moreVars>>
    \/ \E cpu_node \in Nodes :
          numa_record_key_access("k1", cpu_node) /\ UNCHANGED <<allocVars, lruVars, slotVars, moreVars>>
    \/ numa_reset_migration_statistics /\ UNCHANGED <<allocVars, lruVars, slotVars, moreVars>>

SpecMigStats == InitMig /\ [][NextMigStats]_vars

\* the step is the return of a numa_migrate_single_key call that was rejected
\* as invalid or not found
RejectedStep ==
    /\ nmigs' # nmigs /\ pc' = "idle"
    /\ last'.result \in {NUMA_KEY_MIGRATE_EINVAL, NUMA_KEY_MIGRATE_ENOENT}

\* the step is the tail of a call that reached the per-kind migration
CountedStep == pc = "finish" /\ pc' = "idle"

\* C39: in every state total_migrations = successful_migrations +
\* failed_migrations; a call that reaches the per-kind migration adds one to
\* the total and one to exactly one of successful and failed; a call rejected
\* as invalid or not found changes no statistic and no metadata
C39_StatisticsAddUp ==
    /\ [](stats.total_migrations =
             stats.successful_migrations + stats.failed_migrations)
    /\ [][CountedStep =>
             /\ stats'.total_migrations = stats.total_migrations + 1
             /\ \/ /\ stats'.successful_migrations = stats.successful_migrations + 1
                   /\ stats'.failed_migrations = stats.failed_migrations
                \/ /\ stats'.successful_migrations = stats.successful_migrations
                   /\ stats'.failed_migrations = stats.failed_migrations + 1]_vars
    /\ [][RejectedStep => UNCHANGED <<stats, key_metadata>>]_vars

\* a successful and a failed migration have been counted, and the last call
\* was rejected
C39_Witness ==
    /\ stats.successful_migrations >= 1 /\ stats.failed_migrations >= 1
    /\ nmigs = MaxMigrations

\* ---------------------------------------------------------------------------
\* calculate_time_delta on its own (SpecDelta): the two copies of the
\* function, in numa_composite_lru.c and in numa_key_migrate.c, applied to
\* pairs of 16-bit clock values.  The operands are promoted to int, the
\* result is converted to uint16_t on return.
\* ---------------------------------------------------------------------------

\* calculate_time_delta(current, last) of numa_key_migrate.c
key_migrate_calculate_time_delta(current, last_time) ==
    IF current >= last_time THEN U16(current - last_time)
    ELSE U16((65535 - last_time) + current + 1)

\* 16-bit clock values: the ends, the middle, and their neighbours
DeltaClocks == {0, 1, 2, 3, 32767, 32768, 65533, 65534, 65535}

\* no result yet
NoDelta == 0 - 1

\* a call of one of the two functions with the arguments of the state
CalculateTimeDelta(in_key_migrate) ==
    /\ delta_call.delta = NoDelta
    /\ delta_call' =
          [delta_call EXCEPT
             !.by = IF in_key_migrate THEN "numa_key_migrate" ELSE "numa_composite_lru",
             !.delta = IF in_key_migrate
                       THEN key_migrate_calculate_time_delta(delta_call.current,
                                                             delta_call.last)
                       ELSE calculate_time_delta(delta_call.current, delta_call.last)]
    /\ UNCHANGED <<compactVars, lockVars, nodeVars>>

InitDelta ==
    /\ AllocQuiet /\ MigQuiet /\ LruQuiet /\ SlotQuiet /\ SlabQuiet /\ PlaceQuiet
    /\ CompactQuiet /\ LockQuiet /\ NodeQuiet
    /\ \E current \in DeltaClocks, last_time \in DeltaClocks :
          delta_call = [by |-> "", current |-> current, last |-> last_time,
                        delta |-> NoDelta]

NextDelta ==
    \/ CalculateTimeDelta(FALSE)
       /\ UNCHANGED <<allocVars, migVars, lruVars, slotVars, slabVars, placeVars>>
    \/ CalculateTimeDelta(TRUE)
       /\ UNCHANGED <<allocVars, migVars, lruVars, slotVars, slabVars, placeVars>>

SpecDelta == InitDelta /\ [][NextDelta]_vars

\* C40: for 16-bit clock values current and last the computed delta is
\* (current - last) mod 2^16; last = 0xFFFE and current = 0x0002 give 4
C40_DeltaIsDifferenceMod65536 ==
    delta_call.delta # NoDelta =>
        /\ delta_call.delta = (delta_call.current - delta_call.last) % 65536
        /\ (delta_call.last = 65534 /\ delta_call.current = 2 => delta_call.delta = 4)

C40_Witness ==
    /\ delta_call.by = "numa_key_migrate"
    /\ delta_call.current = 2 /\ delta_call.last = 65534 /\ delta_call.delta = 4

====
